---- MODULE Spec2Model ----
(***************************************************************************)
(* Game of Go rules engine, scoring and match phase controller of the      *)
(* game backend (socket handlers of socket/gameSocket.js in its two        *)
(* checked-in revisions, and the start-go route of routes/gameRoutes.js).  *)
(*                                                                         *)
(* Numbers that are points (komi, scores) are kept in half points, so that *)
(* komi 7.5 is the integer 15; times are kept in sweep intervals of 500ms. *)
(***************************************************************************)
EXTENDS Integers, Sequences, FiniteSets, TLC

(* ------------------------------ bounds -------------------------------- *)

\* side length of the board the model plays on (the source plays 9, 13, 19)
N == 2

\* accepted moves and passes explored in an untimed match on a 2x2 board,
\* with every handler running
MaxPlies == 4

\* accepted moves and passes explored on a 2x2 board when only placements
\* and passes are requested
MaxRulePlies == 7

\* plies of depth given up for every unit of board side beyond 2
SidePlyCost == 3

\* accepted moves and passes explored in a timed match
MaxTimedPlies == 2

\* wall-clock horizon, in sweep intervals
MaxNow == 5

\* start-go requests explored per match record
MaxStarts == 1

\* stones that may be marked dead at the same time
MaxDeadStones == 1

\* side of the boards on which the rule and scoring functions are exercised
\* position by position
BoardN == 3

\* largest capture tally handed to the scoring functions
MaxTally == 1

\* accepted moves and passes explored in a match played against the clock
MaxClockPlies == 2

\* wall-clock horizon of a match played against the clock, in sweep intervals
MaxClockNow == 6

\* accepted moves, passes and resignations, and the time horizon in sweep
\* intervals, of the matches in which the sweep and a handler interleave
MaxRacePlies == 2
MaxRaceNow == 4

\* accepted moves and passes explored on a history near its capacity
MaxHistoryPlies == 2

\* sweep intervals of real time over which a series of matches is followed
MaxSeriesNow == 3

\* sweep intervals of real time over which an idle match is followed
MaxIdleNow == 12

\* placements and passes before the players confirm the score
MaxConfirmPlies == 3

(* ------------------------- program constants -------------------------- *)

BOARD_DEFAULT_SIZE == N
MAX_POSITION_HISTORY == 2048
DEFAULT_SCORING_METHOD == "chinese"
\* FIXED_KOMI = 7.5, in half points
FIXED_KOMI == 15
\* sweep intervals per second: the sweep runs every 500 ms
IntervalsPerSecond == 2

NULL == "null"
NoTime == -1
Colors == {"black", "white"}
HOST == "host"
GUEST == "guest"
OUTSIDER == "outsider"
Users == {HOST, GUEST, OUTSIDER}

Other(color) == IF color = "black" THEN "white" ELSE "black"

directions == << <<-1, 0>>, <<1, 0>>, <<0, -1>>, <<0, 1>> >>

(* ------------------------------- board -------------------------------- *)

NullBoard == << >>

BoardLength(board) == Cardinality(DOMAIN board)

createBoard(size) == [r \in 0..(size - 1) |-> [c \in 0..(size - 1) |-> NULL]]

SetCell(board, r, c, v) == [board EXCEPT ![r] = [@ EXCEPT ![c] = v]]

InBounds(size, r, c) == ~(r < 0 \/ r >= size \/ c < 0 \/ c >= size)

\* JSON.stringify({ board, next }): the rows in order, each cell a token,
\* followed by the color to move
RowTokens(row, size) == [i \in 1..size |-> row[i - 1]]

getPositionHash(board, nextTurn) ==
  << [i \in 1..BoardLength(board) |-> RowTokens(board[i - 1], BoardLength(board))],
     nextTurn >>

(* --------------------- group and liberty analyzer --------------------- *)

\* the while loop of findGroup: explicit stack, shared visited set
RECURSIVE FindGroupLoop(_, _, _, _, _)
FindGroupLoop(board, color, stack, visited, group) ==
  IF stack = << >>
  THEN [group |-> group, visited |-> visited]
  ELSE LET top  == stack[Len(stack)]
           rest == SubSeq(stack, 1, Len(stack) - 1)
           r    == top[1]
           c    == top[2]
       IN  IF top \in visited
           THEN FindGroupLoop(board, color, rest, visited, group)
           ELSE IF ~InBounds(BoardLength(board), r, c)
           THEN FindGroupLoop(board, color, rest, visited, group)
           ELSE IF board[r][c] # color
           THEN FindGroupLoop(board, color, rest, visited, group)
           ELSE FindGroupLoop(board, color,
                              rest \o [i \in 1..4 |-> <<r + directions[i][1], c + directions[i][2]>>],
                              visited \cup {top},
                              Append(group, top))

findGroup(board, startRow, startCol, color, visited) ==
  FindGroupLoop(board, color, << <<startRow, startCol>> >>, visited, << >>)

hasLibertiesOfHead(board, group) ==
  \E k \in 1..Len(group) : \E i \in 1..4 :
    LET nr == group[1][1] + directions[i][1]
        nc == group[1][2] + directions[i][2]
    IN  InBounds(BoardLength(board), nr, nc) /\ board[nr][nc] = NULL

hasLiberties(board, group) ==
  \E k \in 1..Len(group) : \E i \in 1..4 :
    LET nr == group[k][1] + directions[i][1]
        nc == group[k][2] + directions[i][2]
    IN  InBounds(BoardLength(board), nr, nc) /\ board[nr][nc] = NULL

\* captured.push for every stone of the group not yet in captured
RECURSIVE PushNew(_, _, _)
PushNew(captured, group, k) ==
  IF k > Len(group) THEN captured
  ELSE PushNew(IF \E j \in 1..Len(captured) : captured[j] = group[k]
               THEN captured
               ELSE Append(captured, group[k]),
               group, k + 1)

RECURSIVE CheckCapturesLoop(_, _, _, _, _, _, _)
CheckCapturesLoop(board, row, col, opponentColor, i, visited, captured) ==
  IF i > 4 THEN captured
  ELSE LET nr == row + directions[i][1]
           nc == col + directions[i][2]
       IN  IF ~InBounds(BoardLength(board), nr, nc)
           THEN CheckCapturesLoop(board, row, col, opponentColor, i + 1, visited, captured)
           ELSE IF board[nr][nc] # opponentColor
           THEN CheckCapturesLoop(board, row, col, opponentColor, i + 1, visited, captured)
           ELSE LET res == findGroup(board, nr, nc, opponentColor, visited)
                IN  CheckCapturesLoop(board, row, col, opponentColor, i + 1, res.visited,
                                      IF ~hasLiberties(board, res.group)
                                      THEN PushNew(captured, res.group, 1)
                                      ELSE captured)

checkCapturesOfNone(board, row, col, opponentColor) == << >>

checkCaptures(board, row, col, opponentColor) ==
  CheckCapturesLoop(board, row, col, opponentColor, 1, {}, << >>)

\* captured.forEach(([r, c]) => { testBoard[r][c] = null; })
RECURSIVE RemoveCaptured(_, _, _)
RemoveCaptured(board, captured, k) ==
  IF k > Len(captured) THEN board
  ELSE RemoveCaptured(SetCell(board, captured[k][1], captured[k][2], NULL), captured, k + 1)

(* ------------------- territory and scoring calculator ------------------ *)

\* removeDeadStonesForScoring mutates the working board and returns the bonus
RECURSIVE RemoveDeadLoop(_, _, _, _)
RemoveDeadLoop(board, deadStones, k, bonus) ==
  IF k > Len(deadStones) THEN [board |-> board, bonus |-> bonus]
  ELSE LET row == deadStones[k].row
           col == deadStones[k].col
       IN  IF row < 0 \/ col < 0 \/ row >= BoardLength(board) \/ col >= BoardLength(board)
           THEN RemoveDeadLoop(board, deadStones, k + 1, bonus)
           ELSE IF board[row][col] = NULL
           THEN RemoveDeadLoop(board, deadStones, k + 1, bonus)
           ELSE RemoveDeadLoop(SetCell(board, row, col, NULL), deadStones, k + 1,
                               IF board[row][col] = "black"
                               THEN [bonus EXCEPT !.white = @ + 1]
                               ELSE [bonus EXCEPT !.black = @ + 1])

removeDeadStonesForScoring(board, deadStones) ==
  IF BoardLength(board) = 0
  THEN [board |-> board, bonus |-> [black |-> 0, white |-> 0]]
  ELSE RemoveDeadLoop(board, deadStones, 1, [black |-> 0, white |-> 0])

\* the four-direction loop for one dequeued cell of a region
RECURSIVE RegionNeighbors(_, _, _, _, _, _, _)
RegionNeighbors(board, cr, cc, i, queue, visited, borderingColors) ==
  IF i > 4 THEN [queue |-> queue, visited |-> visited, borderingColors |-> borderingColors]
  ELSE LET nr == cr + directions[i][1]
           nc == cc + directions[i][2]
       IN  IF ~InBounds(BoardLength(board), nr, nc)
           THEN RegionNeighbors(board, cr, cc, i + 1, queue, visited, borderingColors)
           ELSE IF <<nr, nc>> \in visited
           THEN RegionNeighbors(board, cr, cc, i + 1, queue, visited, borderingColors)
           ELSE IF board[nr][nc] = NULL
           THEN RegionNeighbors(board, cr, cc, i + 1, Append(queue, <<nr, nc>>),
                                visited \cup {<<nr, nc>>}, borderingColors)
           ELSE RegionNeighbors(board, cr, cc, i + 1, queue, visited,
                                borderingColors \cup {board[nr][nc]})

\* while (queue.length > 0) of analyzeTerritory
RECURSIVE RegionLoop(_, _, _, _, _)
RegionLoop(board, queue, visited, region, borderingColors) ==
  IF queue = << >>
  THEN [visited |-> visited, region |-> region, borderingColors |-> borderingColors]
  ELSE LET cell == Head(queue)
           nb   == RegionNeighbors(board, cell[1], cell[2], 1, Tail(queue), visited, borderingColors)
       IN  RegionLoop(board, nb.queue, nb.visited, Append(region, cell), nb.borderingColors)

CreditedToAnyBorder(borderingColors) == Cardinality(borderingColors) >= 1

\* borderingColors.size === 1
Credited(borderingColors) == Cardinality(borderingColors) = 1

\* the row-major double loop of analyzeTerritory, k = r * size + c
RECURSIVE TerritoryLoop(_, _, _, _, _)
TerritoryLoop(board, k, visited, territory, stones) ==
  LET size == BoardLength(board)
      r    == k \div size
      c    == k % size
  IN  IF k >= size * size THEN [territory |-> territory, stones |-> stones]
      ELSE IF board[r][c] = "black"
      THEN TerritoryLoop(board, k + 1, visited, territory, [stones EXCEPT !.black = @ + 1])
      ELSE IF board[r][c] = "white"
      THEN TerritoryLoop(board, k + 1, visited, territory, [stones EXCEPT !.white = @ + 1])
      ELSE IF <<r, c>> \in visited
      THEN TerritoryLoop(board, k + 1, visited, territory, stones)
      ELSE LET reg == RegionLoop(board, << <<r, c>> >>, visited \cup {<<r, c>>}, << >>, {})
           IN  TerritoryLoop(board, k + 1, reg.visited,
                             IF Credited(reg.borderingColors)
                             THEN LET owner == CHOOSE o \in reg.borderingColors : TRUE
                                  IN  [territory EXCEPT ![owner] = @ + Len(reg.region)]
                             ELSE territory,
                             stones)

analyzeTerritory(board) ==
  IF BoardLength(board) = 0
  THEN [territory |-> [black |-> 0, white |-> 0], stones |-> [black |-> 0, white |-> 0]]
  ELSE TerritoryLoop(board, 0, {}, [black |-> 0, white |-> 0], [black |-> 0, white |-> 0])

\* a whole number of points, in half points
Points(n) == 2 * n

WinnerTiesToWhite(blackScore, whiteScore) ==
  IF whiteScore >= blackScore THEN "white" ELSE "black"

Winner(blackScore, whiteScore) ==
  IF blackScore = whiteScore THEN NULL
  ELSE IF whiteScore > blackScore THEN "white" ELSE "black"

\* the summary calculateChineseScore builds from the territory analysis
ChineseSummary(a, captures, komi) ==
  LET blackArea  == a.stones.black + a.territory.black
      whiteArea  == a.stones.white + a.territory.white
      blackScore == Points(blackArea)
      whiteScore == Points(whiteArea) + komi
  IN  [black  |-> [stones |-> a.stones.black, territory |-> a.territory.black,
                   captures |-> captures.black, area |-> blackArea, score |-> blackScore],
       white  |-> [stones |-> a.stones.white, territory |-> a.territory.white,
                   captures |-> captures.white, area |-> whiteArea, komi |-> komi,
                   score |-> whiteScore],
       komi   |-> komi,
       winner |-> Winner(blackScore, whiteScore)]

calculateChineseScoreWithoutKomi(board, captures, komi) ==
  ChineseSummary(analyzeTerritory(board), captures, 0)

calculateChineseScore(board, captures, komi) ==
  ChineseSummary(analyzeTerritory(board), captures, komi)

\* the summary calculateJapaneseScore builds from the territory analysis
JapaneseSummary(a, captures, komi) ==
  LET blackScore == Points(a.territory.black + captures.black)
      whiteScore == Points(a.territory.white + captures.white) + komi
  IN  [black  |-> [territory |-> a.territory.black, captures |-> captures.black,
                   score |-> blackScore],
       white  |-> [territory |-> a.territory.white, captures |-> captures.white,
                   komi |-> komi, score |-> whiteScore],
       komi   |-> komi,
       winner |-> Winner(blackScore, whiteScore)]

calculateJapaneseScore(board, captures, komi) ==
  JapaneseSummary(analyzeTerritory(board), captures, komi)

(* ---------------------------- time control ----------------------------- *)

Max(a, b) == IF a >= b THEN a ELSE b

\* Math.floor((now - game.goLastMoveTime) / 1000), times in sweep intervals
getElapsedTime(game, t) ==
  IF game.goLastMoveTime = NoTime THEN 0
  ELSE (t - game.goLastMoveTime) \div IntervalsPerSecond

applyFischerTimeCapped(game, color, t) ==
  LET control == game.goTimeControl
      state   == game.goTimeState[color]
      elapsed == getElapsedTime(game, t)
      left    == Max(0, state.mainTime - elapsed)
      topped  == IF left + control.increment > control.mainTime
                 THEN control.mainTime ELSE left + control.increment
  IN  IF control.mode # "fischer" THEN game
      ELSE IF left <= 0
      THEN [game EXCEPT !.goTimeState[color].mainTime = left,
                        !.goTimeExpired = color]
      ELSE [game EXCEPT !.goTimeState[color].mainTime = topped,
                        !.goLastMoveTime = t]

applyFischerTime(game, color, t) ==
  LET control == game.goTimeControl
      state   == game.goTimeState[color]
      elapsed == getElapsedTime(game, t)
      left    == Max(0, state.mainTime - elapsed)
  IN  IF control.mode # "fischer" THEN game
      ELSE IF left <= 0
      THEN [game EXCEPT !.goTimeState[color].mainTime = left,
                        !.goTimeExpired = color]
      ELSE [game EXCEPT !.goTimeState[color].mainTime = left + control.increment,
                        !.goLastMoveTime = t]

applyJapaneseByoYomiStrict(game, color, t) ==
  LET control == game.goTimeControl
      state   == game.goTimeState[color]
      elapsed == getElapsedTime(game, t)
      \* the main-time branch
      left    == Max(0, state.mainTime - elapsed)
      s1      == IF state.isByoYomi THEN state
                 ELSE IF left <= 0
                 THEN [state EXCEPT !.mainTime = left, !.isByoYomi = TRUE,
                                    !.byoYomiTime = control.byoYomiTime,
                                    !.byoYomiPeriods = control.byoYomiPeriods]
                 ELSE [state EXCEPT !.mainTime = left]
      periods == Max(0, s1.byoYomiPeriods - 1)
  IN  IF control.mode # "japanese" THEN game
      ELSE IF ~s1.isByoYomi
      THEN [game EXCEPT !.goTimeState[color] = s1, !.goLastMoveTime = t]
      ELSE IF elapsed < s1.byoYomiTime
      THEN [game EXCEPT !.goTimeState[color] = [s1 EXCEPT !.byoYomiTime = control.byoYomiTime],
                        !.goLastMoveTime = t]
      ELSE IF periods <= 0
      THEN [game EXCEPT !.goTimeState[color] = [s1 EXCEPT !.byoYomiPeriods = periods],
                        !.goTimeExpired = color]
      ELSE [game EXCEPT !.goTimeState[color] = [s1 EXCEPT !.byoYomiPeriods = periods,
                                                         !.byoYomiTime = control.byoYomiTime],
                        !.goLastMoveTime = t]

applyJapaneseByoYomi(game, color, t) ==
  LET control == game.goTimeControl
      state   == game.goTimeState[color]
      elapsed == getElapsedTime(game, t)
      \* the main-time branch
      left    == Max(0, state.mainTime - elapsed)
      s1      == IF state.isByoYomi THEN state
                 ELSE IF left <= 0
                 THEN [state EXCEPT !.mainTime = left, !.isByoYomi = TRUE,
                                    !.byoYomiTime = control.byoYomiTime,
                                    !.byoYomiPeriods = control.byoYomiPeriods]
                 ELSE [state EXCEPT !.mainTime = left]
      periods == Max(0, s1.byoYomiPeriods - 1)
  IN  IF control.mode # "japanese" THEN game
      ELSE IF ~s1.isByoYomi
      THEN [game EXCEPT !.goTimeState[color] = s1, !.goLastMoveTime = t]
      ELSE IF elapsed <= s1.byoYomiTime
      THEN [game EXCEPT !.goTimeState[color] = [s1 EXCEPT !.byoYomiTime = control.byoYomiTime],
                        !.goLastMoveTime = t]
      ELSE IF periods <= 0
      THEN [game EXCEPT !.goTimeState[color] = [s1 EXCEPT !.byoYomiPeriods = periods],
                        !.goTimeExpired = color]
      ELSE [game EXCEPT !.goTimeState[color] = [s1 EXCEPT !.byoYomiPeriods = periods,
                                                         !.byoYomiTime = control.byoYomiTime],
                        !.goLastMoveTime = t]

\* the update charged to the clock of the color that is not moving
updateTimeOnMoveOfOpponent(game, color, t) ==
  IF game.goTimeControl.mode = "none" THEN game
  ELSE IF game.goTimeControl.mode = "fischer"
  THEN applyFischerTime(game, IF color = "black" THEN "white" ELSE "black", t)
  ELSE IF game.goTimeControl.mode = "japanese"
  THEN applyJapaneseByoYomi(game, IF color = "black" THEN "white" ELSE "black", t)
  ELSE game

updateTimeOnMove(game, color, t) ==
  IF game.goTimeControl.mode = "none" THEN game
  ELSE IF game.goTimeControl.mode = "fischer" THEN applyFischerTime(game, color, t)
  ELSE IF game.goTimeControl.mode = "japanese" THEN applyJapaneseByoYomi(game, color, t)
  ELSE game

\* the deduction the periodic sweep applies to the color on turn; the result
\* is the mutated document and the returned flag
DeductCurrent(game, elapsed) ==
  LET color   == game.goCurrentTurn
      state   == game.goTimeState[color]
      control == game.goTimeControl
      newMain == Max(0, state.mainTime - elapsed)
      newByo  == Max(0, state.byoYomiTime - elapsed)
      periods == Max(0, state.byoYomiPeriods - 1)
  IN  IF control.mode = "fischer"
      THEN IF newMain # state.mainTime
           THEN [game |-> [game EXCEPT !.goTimeState[color].mainTime = newMain,
                                       !.goTimeExpired = IF newMain <= 0 THEN color ELSE @],
                 updated |-> TRUE]
           ELSE [game |-> game, updated |-> FALSE]
      ELSE IF control.mode = "japanese"
      THEN IF ~state.isByoYomi
           THEN IF newMain # state.mainTime
                THEN [game |-> [game EXCEPT !.goTimeState[color] =
                                  IF newMain <= 0
                                  THEN [state EXCEPT !.mainTime = newMain, !.isByoYomi = TRUE,
                                                     !.byoYomiTime = control.byoYomiTime,
                                                     !.byoYomiPeriods = control.byoYomiPeriods]
                                  ELSE [state EXCEPT !.mainTime = newMain]],
                      updated |-> TRUE]
                ELSE [game |-> game, updated |-> FALSE]
           ELSE IF newByo # state.byoYomiTime
                THEN [game |-> IF newByo <= 0
                               THEN IF periods <= 0
                                    THEN [game EXCEPT !.goTimeState[color] =
                                                        [state EXCEPT !.byoYomiTime = newByo,
                                                                      !.byoYomiPeriods = periods],
                                                      !.goTimeExpired = color]
                                    ELSE [game EXCEPT !.goTimeState[color] =
                                                        [state EXCEPT !.byoYomiTime = control.byoYomiTime,
                                                                      !.byoYomiPeriods = periods]]
                               ELSE [game EXCEPT !.goTimeState[color].byoYomiTime = newByo],
                      updated |-> TRUE]
                ELSE [game |-> game, updated |-> FALSE]
      ELSE [game |-> game, updated |-> FALSE]

updateCurrentPlayerTimeOneSecond(game, t) ==
  LET elapsedSeconds == (t - game.goLastMoveTime) \div IntervalsPerSecond
      d              == DeductCurrent(game, 1)
  IN  IF game.goTimeControl.mode = "none" THEN [game |-> game, updated |-> FALSE]
      ELSE IF game.goLastMoveTime = NoTime THEN [game |-> game, updated |-> FALSE]
      ELSE IF elapsedSeconds < 1 THEN [game |-> game, updated |-> FALSE]
      ELSE IF d.updated
      THEN [game |-> [d.game EXCEPT !.goLastMoveTime = t], updated |-> TRUE]
      ELSE d

\* updateCurrentPlayerTime of part_004: real elapsed seconds, at least one,
\* and the clock-start timestamp moves to now after a deduction
updateCurrentPlayerTime(game, t) ==
  LET elapsedSeconds == (t - game.goLastMoveTime) \div IntervalsPerSecond
      d              == DeductCurrent(game, elapsedSeconds)
  IN  IF game.goTimeControl.mode = "none" THEN [game |-> game, updated |-> FALSE]
      ELSE IF game.goLastMoveTime = NoTime THEN [game |-> game, updated |-> FALSE]
      ELSE IF elapsedSeconds < 1 THEN [game |-> game, updated |-> FALSE]
      ELSE IF d.updated
      THEN [game |-> [d.game EXCEPT !.goLastMoveTime = t], updated |-> TRUE]
      ELSE d

\* updateCurrentPlayerTime of socket/gameSocket.js: the clock-start timestamp
\* is left alone
updateCurrentPlayerTimeOld(game, t) ==
  IF game.goTimeControl.mode = "none" THEN [game |-> game, updated |-> FALSE]
  ELSE DeductCurrent(game, getElapsedTime(game, t))

(* ------------------------- the match document ------------------------- *)

Builds == {"gameSocket", "part_004"}

NullScore == [isNull |-> TRUE]

ZeroClock == [mainTime |-> 0, isByoYomi |-> FALSE, byoYomiTime |-> 0, byoYomiPeriods |-> 0]

\* gameSchema defaults, for a match with host and guest joined (status READY)
NewGame ==
  [host |-> HOST, guest |-> GUEST, status |-> "READY", activeStage |-> NULL,
   goBoard |-> NullBoard, goPreviousBoard |-> NullBoard, goBoardSize |-> BOARD_DEFAULT_SIZE,
   goKomi |-> 13, goPositionHashes |-> << >>, goCurrentTurn |-> "black",
   goCapturedBlack |-> 0, goCapturedWhite |-> 0, goConsecutivePasses |-> 0,
   goDeadStones |-> << >>, goPhase |-> "PLAY", goFinalScore |-> NullScore,
   goScoringConfirmations |-> << >>, goPendingScoringMethod |-> "chinese",
   goTimeControl |-> [mode |-> "none", mainTime |-> 0, increment |-> 0,
                      byoYomiTime |-> 0, byoYomiPeriods |-> 0],
   goTimeState |-> [black |-> ZeroClock, white |-> ZeroClock],
   goLastMoveTime |-> NoTime, goTimeExpired |-> NULL]

\* what a handler leaves behind: the saved document, the events it emitted
\* and the number of updateUserStats calls that passed the guard
Err(msg) == [ev |-> "game:error", msg |-> msg]

RejectAfterPassReset(game, msg) ==
  [game |-> [game EXCEPT !.goConsecutivePasses = 0], emitted |-> <<Err(msg)>>, stats |-> 0]

Reject(game, msg) == [game |-> game, emitted |-> <<Err(msg)>>, stats |-> 0]

IsError(events) == Len(events) = 1 /\ events[1].ev = "game:error"

updateUserStats(game) ==
  IF game.host = NULL \/ game.guest = NULL \/ game.status # "COMPLETE" THEN 0 ELSE 1

ColorName(color) == IF color = "black" THEN "Black" ELSE "White"

TimeLoss(game, reason) ==
  LET winner == Other(game.goTimeExpired)
  IN  [game EXCEPT !.goPhase = "COMPLETE", !.status = "COMPLETE",
                   !.goFinalScore = [winner |-> winner, reason |-> reason,
                                     message |-> <<ColorName(game.goTimeExpired),
                                                   "ran out of time.",
                                                   ColorName(winner), "wins.">>]]

(* --------------------------- submitGoMove ----------------------------- *)

IsParticipant(game, userId) == userId = game.host \/ userId = game.guest

ExpectedColor(game, userId) == IF userId = game.host THEN "black" ELSE "white"

IsOccupiedNever(board, row, col) == FALSE

IsOccupied(board, row, col) == board[row][col] # NULL

\* history.slice(-MAX_POSITION_HISTORY + 1)
\* a slice that keeps every entry
SliceLastKeepsAll(history, n) == history

SliceLast(history, n) ==
  IF Len(history) <= n THEN history
  ELSE SubSeq(history, Len(history) - n + 1, Len(history))

SuperkoBoardBeforeCapture(board, testBoard) == board

\* the board the superko fingerprint is taken of
SuperkoBoard(board, testBoard) == testBoard

IsSuicideNever(testBoard, row, col, color, captured) == FALSE

IsSuicide(testBoard, row, col, color, captured) ==
  /\ Len(captured) = 0
  /\ ~hasLiberties(testBoard, findGroup(testBoard, row, col, color, {}).group)

SwitchTurnKeepsTurn(game, color) == [game EXCEPT !.status = "IN_PROGRESS"]

\* game.goCurrentTurn = the other color; game.status = 'IN_PROGRESS'
SwitchTurn(game, color) ==
  [game EXCEPT !.goCurrentTurn = Other(color), !.status = "IN_PROGRESS"]

\* the commit of an accepted placement, the clock update and the expiry check
CommitMoveCreditsOpponent(game, t, row, col, color, testBoard, captured, positionHash, history) ==
  LET g1 == [game EXCEPT !.goPreviousBoard = game.goBoard,
                         !.goBoard = testBoard,
                         !.goConsecutivePasses = 0,
                         !.goPositionHashes =
                            Append(SliceLast(history, MAX_POSITION_HISTORY - 1), positionHash),
                         !.goCapturedBlack = IF color = "white" THEN @ + Len(captured) ELSE @,
                         !.goCapturedWhite = IF color = "white" THEN @ ELSE @ + Len(captured)]
      g2 == updateTimeOnMove(g1, color, t)
      g3 == TimeLoss(g2, "time")
      g4 == SwitchTurn(g2, color)
  IN  IF g2.goTimeExpired # NULL
      THEN [game |-> g3,
            emitted |-> <<[ev |-> "goTimeExpired", expired |-> g3.goTimeExpired,
                           winner |-> g3.goFinalScore.winner]>>,
            stats |-> updateUserStats(g3)]
      ELSE [game |-> g4,
            emitted |-> <<[ev |-> "goMove", lastMove |-> [row |-> row, col |-> col, color |-> color],
                           currentTurn |-> g4.goCurrentTurn, phase |-> g4.goPhase,
                           captured |-> Len(captured)]>>,
            stats |-> 0]

CommitMove(game, t, row, col, color, testBoard, captured, positionHash, history) ==
  LET g1 == [game EXCEPT !.goPreviousBoard = game.goBoard,
                         !.goBoard = testBoard,
                         !.goConsecutivePasses = 0,
                         !.goPositionHashes =
                            Append(SliceLast(history, MAX_POSITION_HISTORY - 1), positionHash),
                         !.goCapturedBlack = IF color = "black" THEN @ + Len(captured) ELSE @,
                         !.goCapturedWhite = IF color = "black" THEN @ ELSE @ + Len(captured)]
      g2 == updateTimeOnMove(g1, color, t)
      g3 == TimeLoss(g2, "time")
      g4 == SwitchTurn(g2, color)
  IN  IF g2.goTimeExpired # NULL
      THEN [game |-> g3,
            emitted |-> <<[ev |-> "goTimeExpired", expired |-> g3.goTimeExpired,
                           winner |-> g3.goFinalScore.winner]>>,
            stats |-> updateUserStats(g3)]
      ELSE [game |-> g4,
            emitted |-> <<[ev |-> "goMove", lastMove |-> [row |-> row, col |-> col, color |-> color],
                           currentTurn |-> g4.goCurrentTurn, phase |-> g4.goPhase,
                           captured |-> Len(captured)]>>,
            stats |-> 0]

submitGoMove(game, t, userId, row, col, color) ==
  LET boardSize  == game.goBoardSize
      board      == IF BoardLength(game.goBoard) # boardSize
                    THEN createBoard(boardSize) ELSE game.goBoard
      placed     == SetCell(board, row, col, color)
      captured   == checkCaptures(placed, row, col, Other(color))
      testBoard  == RemoveCaptured(placed, captured, 1)
      nextTurn   == Other(color)
      positionHash == getPositionHash(SuperkoBoard(placed, testBoard), nextTurn)
      history    == game.goPositionHashes
  IN  IF game.guest = NULL THEN Reject(game, "Waiting for opponent to join")
      ELSE IF game.activeStage # "GAME_OF_GO" THEN Reject(game, "Game of Go is not active")
      ELSE IF game.goPhase # "PLAY" THEN Reject(game, "Game is currently in scoring phase")
      ELSE IF ~IsParticipant(game, userId) THEN Reject(game, "You are not part of this game")
      ELSE IF color # ExpectedColor(game, userId) THEN Reject(game, "Invalid color for your player")
      ELSE IF game.goCurrentTurn # color THEN Reject(game, "Not your turn")
      ELSE IF ~InBounds(boardSize, row, col) THEN Reject(game, "Invalid board position")
      ELSE IF IsOccupied(board, row, col) THEN Reject(game, "Position already occupied")
      ELSE IF IsSuicide(testBoard, row, col, color, captured)
      THEN Reject(game, "Suicide rule: Cannot place stone that would capture your own group")
      ELSE IF \E k \in 1..Len(history) : history[k] = positionHash
      THEN Reject(game, "Superko rule: Cannot repeat a previous board position")
      ELSE CommitMove([game EXCEPT !.goBoard = board], t, row, col, color,
                      testBoard, captured, positionHash, history)

(* ------------------------ scoring at game end ------------------------- *)

\* { ...scoreSummary, method }
WithMethod(summary, method) ==
  [black |-> summary.black, white |-> summary.white, komi |-> summary.komi,
   winner |-> summary.winner, method |-> method]

\* dead-stone removal, capture bonus, score by the method, COMPLETE
RecordFinalScore(game, method, totalCaptures, scoreSummary) ==
  [game EXCEPT !.goCapturedBlack = totalCaptures.black,
               !.goCapturedWhite = totalCaptures.white,
               !.goFinalScore = WithMethod(scoreSummary, method),
               !.goPhase = "COMPLETE",
               !.status = "COMPLETE",
               !.activeStage = "GAME_OF_GO",
               !.goScoringConfirmations = << >>]

ScoreWithCaptures(game, method, board, totalCaptures) ==
  RecordFinalScore(game, method, totalCaptures,
                   IF method = "japanese"
                   THEN calculateJapaneseScore(board, totalCaptures, game.goKomi)
                   ELSE calculateChineseScore(board, totalCaptures, game.goKomi))

\* the score on the cleaned board from the captures of the play alone
ScoreWithPlayTally(game, method, dead) ==
  ScoreWithCaptures(game, method, dead.board,
                    [black |-> game.goCapturedBlack, white |-> game.goCapturedWhite])

ScoreWithoutDead(game, method, dead) ==
  ScoreWithCaptures(game, method, dead.board,
                    [black |-> game.goCapturedBlack + dead.bonus.black,
                     white |-> game.goCapturedWhite + dead.bonus.white])

ComputeFinalScore(game, method) ==
  ScoreWithoutDead(game, method,
                   removeDeadStonesForScoring(IF BoardLength(game.goBoard) = 0
                                              THEN createBoard(game.goBoardSize)
                                              ELSE game.goBoard,
                                              game.goDeadStones))

(* ------------------------------ passGo -------------------------------- *)

\* the reason recorded when the passing color has run out of time
PassTimeoutReason(build) == IF build = "part_004" THEN "timeout" ELSE "time"

\* goConsecutivePasses >= 2 in part_004: score at once with the default method
DoublePassFinalized(g) ==
  [game |-> g,
   emitted |-> <<[ev |-> "goPass", currentTurn |-> g.goCurrentTurn,
                  consecutivePasses |-> g.goConsecutivePasses, phase |-> "SCORING"],
                 [ev |-> "goScoreFinalized", method |-> DEFAULT_SCORING_METHOD,
                  winner |-> g.goFinalScore.winner]>>,
   stats |-> updateUserStats(g)]

\* a second pass that waits for the players to confirm the score
DoublePassAwaitsConfirmation(game) ==
  [game |-> [game EXCEPT !.goPhase = "SCORING",
                         !.goScoringConfirmations = << >>,
                         !.goPendingScoringMethod = DEFAULT_SCORING_METHOD],
   emitted |-> <<[ev |-> "goPass", currentTurn |-> game.goCurrentTurn,
                  consecutivePasses |-> game.goConsecutivePasses, phase |-> "SCORING"],
                 [ev |-> "goScoringStart"]>>,
   stats |-> 0]

DoublePassComplete(game) ==
  DoublePassFinalized(
    ComputeFinalScore([game EXCEPT !.goPhase = "SCORING",
                                   !.goPendingScoringMethod = DEFAULT_SCORING_METHOD,
                                   !.goScoringConfirmations = <<game.host, game.guest>>],
                      DEFAULT_SCORING_METHOD))

DoublePassStaysInPlay(game) ==
  [game |-> game,
   emitted |-> <<[ev |-> "goPass", currentTurn |-> game.goCurrentTurn,
                  consecutivePasses |-> game.goConsecutivePasses, phase |-> game.goPhase]>>,
   stats |-> 0]

\* goConsecutivePasses >= 2 in socket/gameSocket.js: enter the scoring phase
DoublePassScoring(game) ==
  LET g == [game EXCEPT !.goPhase = "SCORING",
                        !.goScoringConfirmations = << >>,
                        !.goPendingScoringMethod = DEFAULT_SCORING_METHOD]
  IN  [game |-> g,
       emitted |-> <<[ev |-> "goPass", currentTurn |-> g.goCurrentTurn,
                      consecutivePasses |-> g.goConsecutivePasses, phase |-> "SCORING"],
                     [ev |-> "goScoringStart"]>>,
       stats |-> 0]

\* a pass that leaves the clock of the passing color alone
passGoOffTheClock(game, t, userId, build) ==
  LET expectedColor == ExpectedColor(game, userId)
      g1 == game
      g2 == TimeLoss(g1, PassTimeoutReason(build))
      g3 == [g1 EXCEPT !.goConsecutivePasses = @ + 1,
                       !.goCurrentTurn = Other(expectedColor)]
  IN  IF game.activeStage # "GAME_OF_GO" THEN Reject(game, "Game of Go is not active")
      ELSE IF game.goPhase # "PLAY" THEN Reject(game, "Game is already in scoring phase")
      ELSE IF ~IsParticipant(game, userId) THEN Reject(game, "You are not part of this game")
      ELSE IF game.goCurrentTurn # expectedColor THEN Reject(game, "Not your turn")
      ELSE IF g1.goTimeExpired # NULL
      THEN [game |-> g2,
            emitted |-> <<[ev |-> "goTimeExpired", expired |-> g2.goTimeExpired,
                           winner |-> g2.goFinalScore.winner]>>,
            stats |-> updateUserStats(g2)]
      ELSE IF g3.goConsecutivePasses >= 2
      THEN IF build = "part_004" THEN DoublePassComplete(g3) ELSE DoublePassScoring(g3)
      ELSE [game |-> g3,
            emitted |-> <<[ev |-> "goPass", currentTurn |-> g3.goCurrentTurn,
                           consecutivePasses |-> g3.goConsecutivePasses, phase |-> g3.goPhase]>>,
            stats |-> 0]

passGo(game, t, userId, build) ==
  LET expectedColor == ExpectedColor(game, userId)
      g1 == updateTimeOnMove(game, expectedColor, t)
      g2 == TimeLoss(g1, PassTimeoutReason(build))
      g3 == [g1 EXCEPT !.goConsecutivePasses = @ + 1,
                       !.goCurrentTurn = Other(expectedColor)]
  IN  IF game.activeStage # "GAME_OF_GO" THEN Reject(game, "Game of Go is not active")
      ELSE IF game.goPhase # "PLAY" THEN Reject(game, "Game is already in scoring phase")
      ELSE IF ~IsParticipant(game, userId) THEN Reject(game, "You are not part of this game")
      ELSE IF game.goCurrentTurn # expectedColor THEN Reject(game, "Not your turn")
      ELSE IF g1.goTimeExpired # NULL
      THEN [game |-> g2,
            emitted |-> <<[ev |-> "goTimeExpired", expired |-> g2.goTimeExpired,
                           winner |-> g2.goFinalScore.winner]>>,
            stats |-> updateUserStats(g2)]
      ELSE IF g3.goConsecutivePasses >= 2
      THEN IF build = "part_004" THEN DoublePassComplete(g3) ELSE DoublePassScoring(g3)
      ELSE [game |-> g3,
            emitted |-> <<[ev |-> "goPass", currentTurn |-> g3.goCurrentTurn,
                           consecutivePasses |-> g3.goConsecutivePasses, phase |-> g3.goPhase]>>,
            stats |-> 0]

(* -------------------------- toggleGoDeadStone ------------------------- *)

IndexOfDead(deadStones, row, col) ==
  IF \E k \in 1..Len(deadStones) : deadStones[k].row = row /\ deadStones[k].col = col
  THEN CHOOSE k \in 1..Len(deadStones) :
         /\ deadStones[k].row = row /\ deadStones[k].col = col
         /\ \A j \in 1..(k - 1) : ~(deadStones[j].row = row /\ deadStones[j].col = col)
  ELSE 0

RemoveAt(seq, k) == SubSeq(seq, 1, k - 1) \o SubSeq(seq, k + 1, Len(seq))

toggleGoDeadStoneKeepsConfirmations(game, userId, row, col) ==
  LET boardSize     == game.goBoardSize
      existingIndex == IndexOfDead(game.goDeadStones, row, col)
      g == [game EXCEPT !.goDeadStones =
                           IF existingIndex >= 1 THEN RemoveAt(@, existingIndex)
                           ELSE Append(@, [row |-> row, col |-> col,
                                           color |-> game.goBoard[row][col]])]
  IN  IF game.activeStage # "GAME_OF_GO" THEN Reject(game, "Game of Go is not active")
      ELSE IF game.goPhase # "SCORING"
      THEN Reject(game, "Dead stones can only be marked during scoring")
      ELSE IF ~InBounds(boardSize, row, col) THEN Reject(game, "Invalid board position")
      ELSE IF BoardLength(game.goBoard) = 0 \/ game.goBoard[row][col] = NULL
      THEN Reject(game, "Cannot mark an empty intersection as dead")
      ELSE IF ~IsParticipant(game, userId) THEN Reject(game, "You are not part of this game")
      ELSE [game |-> g,
            emitted |-> <<[ev |-> "goDeadStonesUpdated", deadStones |-> g.goDeadStones]>>,
            stats |-> 0]

toggleGoDeadStone(game, userId, row, col) ==
  LET boardSize     == game.goBoardSize
      existingIndex == IndexOfDead(game.goDeadStones, row, col)
      g == [game EXCEPT !.goDeadStones =
                           IF existingIndex >= 1 THEN RemoveAt(@, existingIndex)
                           ELSE Append(@, [row |-> row, col |-> col,
                                           color |-> game.goBoard[row][col]]),
                        !.goScoringConfirmations = << >>]
  IN  IF game.activeStage # "GAME_OF_GO" THEN Reject(game, "Game of Go is not active")
      ELSE IF game.goPhase # "SCORING"
      THEN Reject(game, "Dead stones can only be marked during scoring")
      ELSE IF ~InBounds(boardSize, row, col) THEN Reject(game, "Invalid board position")
      ELSE IF BoardLength(game.goBoard) = 0 \/ game.goBoard[row][col] = NULL
      THEN Reject(game, "Cannot mark an empty intersection as dead")
      ELSE IF ~IsParticipant(game, userId) THEN Reject(game, "You are not part of this game")
      ELSE [game |-> g,
            emitted |-> <<[ev |-> "goDeadStonesUpdated", deadStones |-> g.goDeadStones]>>,
            stats |-> 0]

(* --------------------------- finalizeGoScore -------------------------- *)

ContainsNever(seq, x) == FALSE

Contains(seq, x) == \E k \in 1..Len(seq) : seq[k] = x

\* the save, the statistics update and the broadcast that end finalizeGoScore
Finalized(final, selectedMethod) ==
  [game |-> final,
   emitted |-> <<[ev |-> "goScoreFinalized", method |-> selectedMethod,
                  winner |-> final.goFinalScore.winner]>>,
   stats |-> updateUserStats(final)]

finalizeGoScoreAdoptsMethod(game, userId, method) ==
  LET selectedMethod == IF method = "japanese" THEN "japanese" ELSE "chinese"
      \* force end from PLAY: both participants are confirmed automatically
      forced == [game EXCEPT !.goPhase = "SCORING",
                             !.goPendingScoringMethod = selectedMethod,
                             !.goScoringConfirmations = <<game.host, game.guest>>]
      \* scoring phase: record the caller's confirmation
      confirmed == [game EXCEPT !.goPendingScoringMethod = selectedMethod,
                                !.goScoringConfirmations =
                                   IF Contains(@, userId) THEN @ ELSE Append(@, userId)]
      requiredConfirmations == IF game.guest # NULL THEN 2 ELSE 1
  IN  IF game.activeStage # "GAME_OF_GO" THEN Reject(game, "Game of Go is not active")
      ELSE IF game.goPhase = "COMPLETE" THEN Reject(game, "Game is already complete")
      ELSE IF ~IsParticipant(game, userId) THEN Reject(game, "You are not part of this game")
      ELSE IF game.goPhase # "PLAY" /\ Len(confirmed.goScoringConfirmations) < requiredConfirmations
      THEN [game |-> confirmed,
            emitted |-> <<[ev |-> "goScorePending", method |-> selectedMethod,
                           confirmations |-> Len(confirmed.goScoringConfirmations),
                           required |-> requiredConfirmations]>>,
            stats |-> 0]
      ELSE Finalized(ComputeFinalScore(IF game.goPhase = "PLAY" THEN forced ELSE confirmed,
                                       selectedMethod),
                     selectedMethod)

finalizeGoScoreInScoringOnly(game, userId, method) ==
  LET selectedMethod == IF method = "japanese" THEN "japanese" ELSE "chinese"
      \* force end from PLAY: both participants are confirmed automatically
      forced == [game EXCEPT !.goPhase = "SCORING",
                             !.goPendingScoringMethod = selectedMethod,
                             !.goScoringConfirmations = <<game.host, game.guest>>]
      \* scoring phase: record the caller's confirmation
      confirmed == [game EXCEPT !.goPendingScoringMethod = selectedMethod,
                                !.goScoringConfirmations =
                                   IF Contains(@, userId) THEN @ ELSE Append(@, userId)]
      requiredConfirmations == IF game.guest # NULL THEN 2 ELSE 1
  IN  IF game.activeStage # "GAME_OF_GO" THEN Reject(game, "Game of Go is not active")
      ELSE IF game.goPhase = "COMPLETE" THEN Reject(game, "Game is already complete")
      ELSE IF ~IsParticipant(game, userId) THEN Reject(game, "You are not part of this game")
      ELSE IF game.goPhase = "PLAY" THEN Reject(game, "Game is not in scoring phase")
      ELSE IF /\ game.goPhase # "PLAY"
              /\ Len(game.goScoringConfirmations) > 0
              /\ game.goPendingScoringMethod # selectedMethod
      THEN Reject(game, "Scoring already in progress")
      ELSE IF game.goPhase # "PLAY" /\ Len(confirmed.goScoringConfirmations) < requiredConfirmations
      THEN [game |-> confirmed,
            emitted |-> <<[ev |-> "goScorePending", method |-> selectedMethod,
                           confirmations |-> Len(confirmed.goScoringConfirmations),
                           required |-> requiredConfirmations]>>,
            stats |-> 0]
      ELSE Finalized(ComputeFinalScore(IF game.goPhase = "PLAY" THEN forced ELSE confirmed,
                                       selectedMethod),
                     selectedMethod)

finalizeGoScore(game, userId, method) ==
  LET selectedMethod == IF method = "japanese" THEN "japanese" ELSE "chinese"
      \* force end from PLAY: both participants are confirmed automatically
      forced == [game EXCEPT !.goPhase = "SCORING",
                             !.goPendingScoringMethod = selectedMethod,
                             !.goScoringConfirmations = <<game.host, game.guest>>]
      \* scoring phase: record the caller's confirmation
      confirmed == [game EXCEPT !.goPendingScoringMethod = selectedMethod,
                                !.goScoringConfirmations =
                                   IF Contains(@, userId) THEN @ ELSE Append(@, userId)]
      requiredConfirmations == IF game.guest # NULL THEN 2 ELSE 1
  IN  IF game.activeStage # "GAME_OF_GO" THEN Reject(game, "Game of Go is not active")
      ELSE IF game.goPhase = "COMPLETE" THEN Reject(game, "Game is already complete")
      ELSE IF ~IsParticipant(game, userId) THEN Reject(game, "You are not part of this game")
      ELSE IF /\ game.goPhase # "PLAY"
              /\ Len(game.goScoringConfirmations) > 0
              /\ game.goPendingScoringMethod # selectedMethod
      THEN Reject(game, "Scoring already in progress")
      ELSE IF game.goPhase # "PLAY" /\ Len(confirmed.goScoringConfirmations) < requiredConfirmations
      THEN [game |-> confirmed,
            emitted |-> <<[ev |-> "goScorePending", method |-> selectedMethod,
                           confirmations |-> Len(confirmed.goScoringConfirmations),
                           required |-> requiredConfirmations]>>,
            stats |-> 0]
      ELSE Finalized(ComputeFinalScore(IF game.goPhase = "PLAY" THEN forced ELSE confirmed,
                                       selectedMethod),
                     selectedMethod)

(* ------------------------------ resignGo ------------------------------ *)

resignGoOnTurn(game, userId) ==
  LET resigningColor == IF userId = game.host THEN "black" ELSE "white"
      winnerColor    == Other(resigningColor)
      g == [game EXCEPT !.goPhase = "COMPLETE", !.status = "COMPLETE",
                        !.goFinalScore = [winner |-> winnerColor, reason |-> "resignation",
                                          message |-> <<ColorName(resigningColor), "resigned.",
                                                        ColorName(winnerColor), "wins.">>]]
  IN  IF game.activeStage # "GAME_OF_GO" THEN Reject(game, "Game of Go is not active")
      ELSE IF game.goPhase = "COMPLETE" THEN Reject(game, "Game is already complete")
      ELSE IF ~IsParticipant(game, userId) THEN Reject(game, "You are not part of this game")
      ELSE IF game.goCurrentTurn # resigningColor THEN Reject(game, "Not your turn")
      ELSE [game |-> g,
            emitted |-> <<[ev |-> "goResigned", resigningColor |-> resigningColor,
                           winner |-> winnerColor]>>,
            stats |-> updateUserStats(g)]

resignGo(game, userId) ==
  LET resigningColor == IF userId = game.host THEN "black" ELSE "white"
      winnerColor    == Other(resigningColor)
      g == [game EXCEPT !.goPhase = "COMPLETE", !.status = "COMPLETE",
                        !.goFinalScore = [winner |-> winnerColor, reason |-> "resignation",
                                          message |-> <<ColorName(resigningColor), "resigned.",
                                                        ColorName(winnerColor), "wins.">>]]
  IN  IF game.activeStage # "GAME_OF_GO" THEN Reject(game, "Game of Go is not active")
      ELSE IF game.goPhase = "COMPLETE" THEN Reject(game, "Game is already complete")
      ELSE IF ~IsParticipant(game, userId) THEN Reject(game, "You are not part of this game")
      ELSE [game |-> g,
            emitted |-> <<[ev |-> "goResigned", resigningColor |-> resigningColor,
                           winner |-> winnerColor]>>,
            stats |-> updateUserStats(g)]

(* ------------------------- the periodic sweep ------------------------- *)

SweepSelectsAnyPhase(game) ==
  /\ game.activeStage = "GAME_OF_GO"
  /\ game.goTimeControl.mode \in {"fischer", "japanese"}
  /\ game.goTimeExpired = NULL

\* the filter of Game.find in the sweep
SweepSelects(game) ==
  /\ game.activeStage = "GAME_OF_GO"
  /\ game.goPhase = "PLAY"
  /\ game.goTimeControl.mode \in {"fischer", "japanese"}
  /\ game.goTimeExpired = NULL

\* the body of the sweep for one selected match; saved is FALSE when the
\* sweep wrote nothing
Sweep(game, t, build) ==
  LET u == IF build = "part_004" THEN updateCurrentPlayerTime(game, t)
           ELSE updateCurrentPlayerTimeOld(game, t)
      g == TimeLoss(u.game, "time")
  IN  IF ~SweepSelects(game) \/ game.goLastMoveTime = NoTime \/ ~u.updated
      THEN [game |-> game, emitted |-> << >>, saved |-> FALSE]
      ELSE IF u.game.goTimeExpired # NULL
      THEN [game |-> g,
            emitted |-> <<[ev |-> "goTimeUpdate"],
                          [ev |-> "goTimeExpired", expired |-> g.goTimeExpired,
                           winner |-> g.goFinalScore.winner]>>,
            saved |-> TRUE]
      ELSE [game |-> u.game, emitted |-> <<[ev |-> "goTimeUpdate"]>>, saved |-> TRUE]

(* ------------------------- start-go (HTTP route) ---------------------- *)

\* the time controls a start-go request may carry
TimeControlInputs ==
  { [mode |-> "none", mainTime |-> 0, increment |-> 0, byoYomiTime |-> 0, byoYomiPeriods |-> 0],
    [mode |-> "fischer", mainTime |-> 2, increment |-> 1, byoYomiTime |-> 0, byoYomiPeriods |-> 0],
    [mode |-> "japanese", mainTime |-> 1, increment |-> 0, byoYomiTime |-> 1, byoYomiPeriods |-> 2] }

startGo(game, t, userId, timeControl) ==
  LET timed == timeControl.mode # "none" /\ timeControl.mainTime > 0
      clock == [mainTime |-> timeControl.mainTime, isByoYomi |-> FALSE,
                byoYomiTime |-> 0, byoYomiPeriods |-> 0]
      initialBoard == createBoard(N)
      g == [game EXCEPT
              !.activeStage = "GAME_OF_GO", !.status = "READY",
              !.goBoardSize = N, !.goBoard = initialBoard, !.goPreviousBoard = NullBoard,
              !.goCurrentTurn = "black", !.goCapturedBlack = 0, !.goCapturedWhite = 0,
              !.goConsecutivePasses = 0, !.goKomi = FIXED_KOMI,
              !.goPositionHashes = <<getPositionHash(initialBoard, "black")>>,
              !.goDeadStones = << >>, !.goPhase = "PLAY", !.goFinalScore = NullScore,
              !.goScoringConfirmations = << >>, !.goPendingScoringMethod = "chinese",
              !.goTimeControl = IF timed THEN timeControl
                                ELSE [mode |-> "none", mainTime |-> 0, increment |-> 0,
                                      byoYomiTime |-> 0, byoYomiPeriods |-> 0],
              !.goTimeState = IF timed THEN [black |-> clock, white |-> clock]
                              ELSE [black |-> ZeroClock, white |-> ZeroClock],
              !.goLastMoveTime = IF timed THEN t ELSE NoTime,
              !.goTimeExpired = NULL]
  IN  IF ~IsParticipant(game, userId)
      THEN [game |-> game, emitted |-> <<[ev |-> "http", status |-> 403]>>, stats |-> 0]
      ELSE [game |-> g, emitted |-> <<[ev |-> "http", status |-> 200]>>, stats |-> 0]

(* --------------------------- rematch:accept --------------------------- *)

\* rematch:accept: a new document with the players and settings of the old
\* one, every other field at its schema default; the old one is not saved
rematchAccept(game, userId, requesterId) ==
  LET newGame == [NewGame EXCEPT
                    !.host = game.host, !.guest = game.guest, !.status = "READY",
                    !.activeStage = game.activeStage,
                    !.goBoardSize = game.goBoardSize,
                    !.goTimeControl = game.goTimeControl]
      refused(msg) == [game |-> game, newGame |-> game, emitted |-> <<Err(msg)>>]
  IN  IF ~IsParticipant(game, userId) THEN refused("You are not part of this game")
      ELSE IF ~IsParticipant(game, requesterId) THEN refused("Invalid requester")
      ELSE IF requesterId = userId THEN refused("Cannot accept your own rematch request")
      ELSE [game |-> game, newGame |-> newGame,
            emitted |-> <<[ev |-> "rematch:accepted", game |-> newGame]>>]

(* --------------------------- the state machine ------------------------ *)

VARIABLES
  game,          \* the persisted match document
  now,           \* wall clock, in sweep intervals
  emitted,       \* the events emitted by the last handler that ran
  statsUpdates,  \* number of statistics updates performed so far
  build,         \* which revision of the socket module is running
  plies,         \* accepted moves and passes of the current match
  starts,        \* start-go requests so far
  inflight       \* the documents a sweep and the handlers have read and not yet saved

vars == <<game, now, emitted, statsUpdates, build, plies, starts, inflight>>

\* nothing read and waiting to be saved
NoSnapshot == [pc |-> "idle", doc |-> NewGame]

\* no finalizeGoScore request of the user has been sent
NoRequest ==
  [pc |-> "idle", doc |-> NewGame, method |-> DEFAULT_SCORING_METHOD,
   result |-> [game |-> NewGame, emitted |-> << >>, stats |-> 0]]

\* neither the sweep nor a handler is between its read and its save
Idle ==
  [sweep |-> NoSnapshot, handler |-> NoSnapshot,
   finalize |-> [u \in {HOST, GUEST} |-> NoRequest]]

\* request coordinates: every intersection, and one cell beyond each edge
Cells(size) == {<<r, c>> : r \in 0..(size - 1), c \in 0..(size - 1)}

CoordInputs(size) ==
  Cells(size) \cup {<<0 - 1, 0>>, <<0, 0 - 1>>, <<size, 0>>, <<0, size>>}

\* how many moves and passes of one match are explored
PlyCap(maxPlies) ==
  IF game.goTimeControl.mode = "none" THEN maxPlies - SidePlyCost * (N - 2) ELSE MaxTimedPlies

Init ==
  /\ game = NewGame
  /\ now = 0
  /\ emitted = << >>
  /\ statsUpdates = 0
  /\ build \in Builds
  /\ plies = 0
  /\ starts = 0
  /\ inflight = Idle

\* a handler ran to completion: its document is saved, its events are out
Ran(r, counted) ==
  /\ game' = r.game
  /\ emitted' = r.emitted
  /\ statsUpdates' = statsUpdates + r.stats
  /\ plies' = IF counted /\ ~IsError(r.emitted) THEN plies + 1 ELSE plies
  /\ UNCHANGED <<now, build, starts, inflight>>

\* a start-go request was answered; a successful one opens a new match
Started(r) ==
  /\ game' = r.game
  /\ emitted' = r.emitted
  /\ plies' = IF r.emitted[1].status = 200 THEN 0 ELSE plies
  /\ starts' = starts + 1
  /\ UNCHANGED <<now, statsUpdates, build, inflight>>

StartGo(timeControls) ==
  /\ starts < MaxStarts
  /\ \E userId \in Users, timeControl \in timeControls :
       Started(startGo(game, now, userId, timeControl))

SubmitGoMove(cap) ==
  /\ plies < cap
  /\ \E userId \in Users, rc \in CoordInputs(game.goBoardSize), color \in Colors :
       Ran(submitGoMove(game, now, userId, rc[1], rc[2], color), TRUE)

PassGo(cap) ==
  /\ plies < cap
  /\ \E userId \in Users : Ran(passGo(game, now, userId, build), TRUE)

ToggleGoDeadStone ==
  \E userId \in Users, rc \in CoordInputs(game.goBoardSize) :
    /\ \/ Len(game.goDeadStones) < MaxDeadStones
       \/ IndexOfDead(game.goDeadStones, rc[1], rc[2]) >= 1
    /\ Ran(toggleGoDeadStone(game, userId, rc[1], rc[2]), FALSE)

FinalizeGoScore(users) ==
  \E userId \in users, method \in {"chinese", "japanese"} :
    Ran(finalizeGoScore(game, userId, method), FALSE)

\* socket/gameSocket.js registers no resignGo handler
ResignGo ==
  /\ build = "part_004"
  /\ \E userId \in Users : Ran(resignGo(game, userId), FALSE)

\* the sweep wrote the match: no statistics update follows
Swept(r) ==
  /\ r.saved
  /\ game' = r.game
  /\ emitted' = r.emitted
  /\ UNCHANGED <<now, statsUpdates, build, plies, starts, inflight>>

Tick == Swept(Sweep(game, now, build))

\* real time passes while a clock is running
Advance ==
  /\ now < MaxNow
  /\ SweepSelects(game)
  /\ game.goLastMoveTime # NoTime
  /\ now' = now + 1
  /\ UNCHANGED <<game, emitted, statsUpdates, build, plies, starts, inflight>>

Next ==
  \/ StartGo(TimeControlInputs)
  \/ SubmitGoMove(PlyCap(MaxPlies))
  \/ PassGo(PlyCap(MaxPlies))
  \/ ToggleGoDeadStone
  \/ FinalizeGoScore(Users)
  \/ ResignGo
  \/ Tick
  \/ Advance

Spec == Init /\ [][Next]_vars

\* untimed matches in which only placements and passes are requested
Untimed == {tc \in TimeControlInputs : tc.mode = "none"}

NextRules ==
  \/ StartGo(Untimed)
  \/ SubmitGoMove(PlyCap(MaxRulePlies))
  \/ PassGo(PlyCap(MaxRulePlies))

SpecRules == Init /\ [][NextRules]_vars

(* ------------- the rule and scoring functions, by position ------------- *)

Adjacent(a, b) ==
  \/ a[1] = b[1] /\ (a[2] = b[2] + 1 \/ b[2] = a[2] + 1)
  \/ a[2] = b[2] /\ (a[1] = b[1] + 1 \/ b[1] = a[1] + 1)

At(board, cell) == board[cell[1]][cell[2]]

\* the least set that contains S and every cell of same next to a member
RECURSIVE Grow(_, _)
Grow(same, S) ==
  IF \E d \in same \ S : \E e \in S : Adjacent(d, e)
  THEN Grow(same, S \cup {d \in same : \E e \in S : Adjacent(d, e)})
  ELSE S

\* the maximal connected set of cells with the content of cell
Component(board, cell) ==
  Grow({d \in Cells(BoardLength(board)) : At(board, d) = At(board, cell)}, {cell})

\* the empty cells next to a set of cells
Liberties(board, G) ==
  {d \in Cells(BoardLength(board)) : At(board, d) = NULL /\ \E e \in G : Adjacent(d, e)}

\* positions of BoardN x BoardN in which every group has a liberty
LegalBoards ==
  {b \in [0..(BoardN - 1) -> [0..(BoardN - 1) -> Colors \cup {NULL}]] :
     \A d \in Cells(BoardN) : At(b, d) # NULL => Liberties(b, Component(b, d)) # {}}

\* a match in play that stands at the given position
PositionGame(board, turn, capturedBlack, capturedWhite, komi) ==
  [NewGame EXCEPT !.activeStage = "GAME_OF_GO", !.status = "IN_PROGRESS",
                  !.goBoardSize = BoardN, !.goBoard = board, !.goCurrentTurn = turn,
                  !.goCapturedBlack = capturedBlack, !.goCapturedWhite = capturedWhite,
                  !.goKomi = komi,
                  !.goPositionHashes = <<getPositionHash(board, turn)>>]

\* komi values handed to the scoring functions: the fixed komi, and a whole
\* point, with which the two scores can be equal
KomiInputs == {FIXED_KOMI, Points(1)}

InitAt(g) ==
  /\ game = g
  /\ now = 0
  /\ emitted = << >>
  /\ statsUpdates = 0
  /\ build = "part_004"
  /\ plies = 0
  /\ starts = 0
  /\ inflight = Idle

\* one placement request on any legal position, either color to move
InitCapture ==
  \E board \in LegalBoards, turn \in Colors :
    InitAt(PositionGame(board, turn, 0, 0, FIXED_KOMI))

\* the first request on the position
NextCapture == emitted = << >> /\ SubmitGoMove(1)

SpecCapture == InitCapture /\ [][NextCapture]_vars

\* one forced end of the match by the host on any legal position, capture
\* tally and komi
InitScore ==
  \E board \in LegalBoards, cb \in 0..MaxTally, cw \in 0..MaxTally, komi \in KomiInputs :
    InitAt(PositionGame(board, "black", cb, cw, komi))

\* the first request on the position
NextScore == emitted = << >> /\ FinalizeGoScore({HOST})

SpecScore == InitScore /\ [][NextScore]_vars

\* the coordinates removeDeadStonesForScoring is handed: a corner, the
\* centre, and one beyond the last column
MarkInputs ==
  {[row |-> 0, col |-> 0], [row |-> 1, col |-> 1], [row |-> 0, col |-> BoardN]}

\* the lists of marks: none, one, two different ones, the same one twice
MarkLists ==
  {<< >>} \cup {<<m>> : m \in MarkInputs}
    \cup {<<[row |-> 0, col |-> 0], [row |-> 1, col |-> 1]>>,
          <<[row |-> 1, col |-> 1], [row |-> 1, col |-> 1]>>}

\* a match in the scoring phase of socket/gameSocket.js on any legal
\* position: the host has confirmed Japanese scoring, the guest has not
InitDead ==
  \E board \in LegalBoards, marks \in MarkLists :
    /\ game = [PositionGame(board, "black", MaxTally, 0, FIXED_KOMI)
                 EXCEPT !.goPhase = "SCORING", !.goConsecutivePasses = 2,
                        !.goDeadStones = marks,
                        !.goPendingScoringMethod = "japanese",
                        !.goScoringConfirmations = <<HOST>>]
    /\ now = 0
    /\ emitted = << >>
    /\ statsUpdates = 0
    /\ build = "gameSocket"
    /\ plies = 0
    /\ starts = 0
    /\ inflight = Idle

\* the guest's answer to the host's confirmation
NextDead == emitted = << >> /\ FinalizeGoScore({GUEST})

SpecDead == InitDead /\ [][NextDead]_vars

(* --------------------- matches with a long history --------------------- *)

\* the stone pattern with the base-3 digits of k, row by row
EarlierBoard(k) ==
  [r \in 0..(BoardN - 1) |->
     [c \in 0..(BoardN - 1) |->
        LET digit == (k \div (3 ^ (r * BoardN + c))) % 3
        IN  IF digit = 1 THEN "black" ELSE IF digit = 2 THEN "white" ELSE NULL]]

\* the history of a match with len positions on record: the fingerprints of
\* len - 1 earlier positions, all different, and that of the position on the
\* board
LongHistory(len, board, turn) ==
  [k \in 1..len |-> IF k = len THEN getPositionHash(board, turn)
                    ELSE getPositionHash(EarlierBoard(k), "black")]

\* histories two and one below the capacity, and full
HistoryLengths == (MAX_POSITION_HISTORY - 2)..MAX_POSITION_HISTORY

\* a match in play with a history near its capacity, the board empty after
\* captures, either color to move
InitHistory ==
  \E len \in HistoryLengths, turn \in Colors :
    InitAt([PositionGame(createBoard(BoardN), turn, 0, 0, FIXED_KOMI)
              EXCEPT !.goPositionHashes = LongHistory(len, createBoard(BoardN), turn)])

NextHistory == SubmitGoMove(MaxHistoryPlies) \/ PassGo(MaxHistoryPlies)

SpecHistory == InitHistory /\ [][NextHistory]_vars

(* ------------------------ matches against the clock -------------------- *)

\* the timed controls of a start-go request, and byo-yomi with a single
\* period and with none (byoYomiPeriods || 0 is stored as it comes)
ClockControlInputs ==
  {tc \in TimeControlInputs : tc.mode # "none"}
    \cup {[mode |-> "japanese", mainTime |-> 1, increment |-> 0,
           byoYomiTime |-> 1, byoYomiPeriods |-> periods] : periods \in {0, 1}}

\* real time passes while a clock is running, up to the given horizon
Elapse(horizon) ==
  /\ now < horizon
  /\ SweepSelects(game)
  /\ game.goLastMoveTime # NoTime
  /\ now' = now + 1
  /\ UNCHANGED <<game, emitted, statsUpdates, build, plies, starts, inflight>>

\* timed matches in which placements and passes are requested while the
\* sweep runs, or is late
NextClock ==
  \/ StartGo(ClockControlInputs)
  \/ SubmitGoMove(MaxClockPlies)
  \/ PassGo(MaxClockPlies)
  \/ Tick
  \/ Elapse(MaxClockNow)

SpecClock == Init /\ [][NextClock]_vars

(* ------------- the sweep and a handler on the same document ------------ *)

\* the controls of the interleaved matches: main times of a second or two
RaceControlInputs ==
  {[mode |-> "fischer", mainTime |-> 2, increment |-> 1,
    byoYomiTime |-> 0, byoYomiPeriods |-> 0],
   [mode |-> "japanese", mainTime |-> 1, increment |-> 0,
    byoYomiTime |-> 1, byoYomiPeriods |-> 1]}

ClockFields == {"mainTime", "isByoYomi", "byoYomiTime", "byoYomiPeriods"}

\* game.save(): the paths whose value differs from the document as it was
\* read are written to the stored document, the others are left as stored
Saved(stored, read, doc) ==
  [f \in DOMAIN stored |->
     IF f = "goTimeState"
     THEN [c \in Colors |->
             [k \in ClockFields |->
                IF doc.goTimeState[c][k] # read.goTimeState[c][k]
                THEN doc.goTimeState[c][k] ELSE stored.goTimeState[c][k]]]
     ELSE IF doc[f] # read[f] THEN doc[f] ELSE stored[f]]

\* the next step of a sweep that holds a document: the first save after the
\* deduction, or the second save after an expiry
SweepWrite(stored, sweep, t, revision) ==
  LET read == sweep.doc
      u    == IF revision = "part_004" THEN updateCurrentPlayerTime(read, t)
              ELSE updateCurrentPlayerTimeOld(read, t)
      lost == TimeLoss(read, "time")
  IN  IF sweep.pc = "expiring"
      THEN [game |-> Saved(stored, read, lost),
            emitted |-> <<[ev |-> "goTimeExpired", expired |-> lost.goTimeExpired,
                           winner |-> lost.goFinalScore.winner]>>,
            sweep |-> NoSnapshot, saved |-> TRUE]
      ELSE IF read.goLastMoveTime = NoTime \/ ~u.updated
      THEN [game |-> stored, emitted |-> << >>, sweep |-> NoSnapshot, saved |-> FALSE]
      ELSE [game |-> Saved(stored, read, u.game),
            emitted |-> <<[ev |-> "goTimeUpdate"]>>,
            sweep |-> IF u.game.goTimeExpired # NULL
                      THEN [pc |-> "expiring", doc |-> u.game] ELSE NoSnapshot,
            saved |-> TRUE]

\* Game.find of the sweep returned the match
SweepFind ==
  /\ inflight.sweep.pc = "idle"
  /\ SweepSelects(game)
  /\ inflight' = [inflight EXCEPT !.sweep = [pc |-> "loaded", doc |-> game]]
  /\ UNCHANGED <<game, now, emitted, statsUpdates, build, plies, starts>>

\* the sweep deducts from the document it holds and saves it
SweepSave ==
  /\ inflight.sweep.pc = "loaded"
  /\ LET w == SweepWrite(game, inflight.sweep, now, build)
     IN  /\ game' = w.game
         /\ emitted' = IF w.saved THEN w.emitted ELSE emitted
         /\ inflight' = [inflight EXCEPT !.sweep = w.sweep]
  /\ UNCHANGED <<now, statsUpdates, build, plies, starts>>

\* the sweep completes the match whose clock it found expired
SweepComplete ==
  /\ inflight.sweep.pc = "expiring"
  /\ LET w == SweepWrite(game, inflight.sweep, now, build)
     IN  /\ game' = w.game
         /\ emitted' = w.emitted
         /\ inflight' = [inflight EXCEPT !.sweep = w.sweep]
  /\ UNCHANGED <<now, statsUpdates, build, plies, starts>>

\* Game.findOne of a socket handler returned the match
HandlerFind ==
  /\ inflight.handler.pc = "idle"
  /\ plies < MaxRacePlies
  /\ game.activeStage = "GAME_OF_GO"
  /\ inflight' = [inflight EXCEPT !.handler = [pc |-> "loaded", doc |-> game]]
  /\ UNCHANGED <<game, now, emitted, statsUpdates, build, plies, starts>>

\* the handler ran on the document it holds: an error leaves the stored
\* document alone, otherwise the document is saved
HandlerSaves(r) ==
  /\ game' = IF IsError(r.emitted) THEN game
             ELSE Saved(game, inflight.handler.doc, r.game)
  /\ emitted' = r.emitted
  /\ statsUpdates' = statsUpdates + r.stats
  /\ plies' = IF IsError(r.emitted) THEN plies ELSE plies + 1
  /\ inflight' = [inflight EXCEPT !.handler = NoSnapshot]
  /\ UNCHANGED <<now, build, starts>>

RaceMove ==
  /\ inflight.handler.pc = "loaded"
  /\ \E userId \in Users, rc \in CoordInputs(game.goBoardSize), color \in Colors :
       HandlerSaves(submitGoMove(inflight.handler.doc, now, userId, rc[1], rc[2], color))

RacePass ==
  /\ inflight.handler.pc = "loaded"
  /\ \E userId \in Users : HandlerSaves(passGo(inflight.handler.doc, now, userId, build))

RaceResign ==
  /\ inflight.handler.pc = "loaded"
  /\ build = "part_004"
  /\ \E userId \in Users : HandlerSaves(resignGo(inflight.handler.doc, userId))

\* real time passes between operations: the read and the saves of one
\* operation fall within one sweep interval
RaceElapse == inflight = Idle /\ Elapse(MaxRaceNow)

NextRace ==
  \/ StartGo(RaceControlInputs)
  \/ SweepFind
  \/ SweepSave
  \/ SweepComplete
  \/ HandlerFind
  \/ RaceMove
  \/ RacePass
  \/ RaceResign
  \/ RaceElapse

SpecRace == Init /\ [][NextRace]_vars

(* -------------------- one pair, match after match --------------------- *)

\* the players move on to the match that rematch:accept created
RematchAccept ==
  /\ build = "part_004"
  /\ starts \in 1..MaxStarts
  /\ \E userId \in Users, requesterId \in Users :
       LET r == rematchAccept(game, userId, requesterId)
       IN  /\ game' = r.newGame
           /\ emitted' = r.emitted
           /\ plies' = IF IsError(r.emitted) THEN plies ELSE 0
           /\ starts' = IF IsError(r.emitted) THEN starts ELSE MaxStarts + 1
           /\ UNCHANGED <<now, statsUpdates, build, inflight>>

\* start-go is requested again for a match that has ended
Restart ==
  /\ starts = MaxStarts
  /\ game.goPhase = "COMPLETE"
  /\ \E userId \in Users, timeControl \in ClockControlInputs :
       Started(startGo(game, now, userId, timeControl))

NextSeries ==
  \/ StartGo(ClockControlInputs)
  \/ SubmitGoMove(MaxClockPlies)
  \/ PassGo(MaxClockPlies)
  \/ ResignGo
  \/ Tick
  \/ Elapse(MaxSeriesNow)
  \/ RematchAccept
  \/ Restart

SpecSeries == Init /\ [][NextSeries]_vars

(* ------------------ a match whose players stay silent ------------------ *)

\* the timed controls of ClockControlInputs, byo-yomi with periods of no
\* length (byoYomiTime || 0 is stored as it comes), and sudden death
IdleControlInputs ==
  ClockControlInputs
    \cup {[mode |-> "japanese", mainTime |-> 1, increment |-> 0,
           byoYomiTime |-> 0, byoYomiPeriods |-> periods] : periods \in {0, 1}}
    \cup {[mode |-> "fischer", mainTime |-> 1, increment |-> 0,
           byoYomiTime |-> 0, byoYomiPeriods |-> 0]}

\* the sweep runs in every interval: time moves on once it has run
IdleElapse == ~Sweep(game, now, build).saved /\ Elapse(MaxIdleNow)

NextIdle ==
  \/ StartGo(IdleControlInputs)
  \/ Tick
  \/ IdleElapse

\* setInterval keeps calling the sweep, and time keeps passing
SpecIdle ==
  Init /\ [][NextIdle]_vars /\ WF_vars(Tick) /\ WF_vars(IdleElapse)

(* ------------- two finalizeGoScore requests at the same time ----------- *)

\* the handler has read the match and run up to its save
Loaded(doc, method, r) == [pc |-> "loaded", doc |-> doc, method |-> method, result |-> r]

\* the match is in the scoring phase and the user sends finalizeGoScore,
\* with the method of the other participant's request if there is one:
\* Game.findOne and the code up to game.save()
ConfirmFind(u) ==
  /\ game.goPhase = "SCORING"
  /\ inflight.finalize[u].pc = "idle"
  /\ \E method \in {"chinese", "japanese"} :
       /\ \A v \in {HOST, GUEST} :
            inflight.finalize[v].pc # "idle" => method = inflight.finalize[v].method
       /\ inflight' = [inflight EXCEPT
                         !.finalize[u] = Loaded(game, method, finalizeGoScore(game, u, method))]
  /\ UNCHANGED <<game, now, emitted, statsUpdates, build, plies, starts>>

\* game.save() of the request: a confirmation is pushed onto the stored
\* array, every other changed path is set
ConfirmWrite(stored, read, r, u) ==
  IF IsError(r.emitted) THEN stored
  ELSE IF r.game.goPhase = "SCORING"
  THEN [Saved(stored, read, r.game) EXCEPT
          !.goScoringConfirmations =
             IF Contains(read.goScoringConfirmations, u)
             THEN stored.goScoringConfirmations
             ELSE Append(stored.goScoringConfirmations, u)]
  ELSE Saved(stored, read, r.game)

\* game.save(), updateUserStats and the events of the request
ConfirmSave(u) ==
  /\ inflight.finalize[u].pc = "loaded"
  /\ game' = ConfirmWrite(game, inflight.finalize[u].doc, inflight.finalize[u].result, u)
  /\ emitted' = inflight.finalize[u].result.emitted
  /\ statsUpdates' = statsUpdates + inflight.finalize[u].result.stats
  /\ inflight' = [inflight EXCEPT !.finalize[u].pc = "done"]
  /\ UNCHANGED <<now, build, plies, starts>>

InitConfirm == Init /\ build = "gameSocket"

NextConfirm ==
  \/ StartGo(Untimed)
  \/ SubmitGoMove(MaxConfirmPlies)
  \/ PassGo(MaxConfirmPlies)
  \/ \E u \in {HOST, GUEST} : ConfirmFind(u)
  \/ \E u \in {HOST, GUEST} : ConfirmSave(u)

SpecConfirm == InitConfirm /\ [][NextConfirm]_vars

(* ------------------ time controls as the client sends them ------------- *)

\* start-go stores increment, byoYomiTime and byoYomiPeriods as they come
\* (x || 0), whatever their sign, once mainTime > 0
UncheckedControlInputs ==
  ClockControlInputs
    \cup {[mode |-> "fischer", mainTime |-> 2, increment |-> 0 - 3,
           byoYomiTime |-> 0, byoYomiPeriods |-> 0],
          [mode |-> "japanese", mainTime |-> 1, increment |-> 0,
           byoYomiTime |-> 0 - 1, byoYomiPeriods |-> 0 - 1]}

NextUnchecked ==
  \/ StartGo(UncheckedControlInputs)
  \/ SubmitGoMove(MaxClockPlies)
  \/ PassGo(MaxClockPlies)
  \/ Tick
  \/ Elapse(MaxClockNow)

SpecUnchecked == Init /\ [][NextUnchecked]_vars

(* ------------------------------ properties ---------------------------- *)

GoActive == game.activeStage = "GAME_OF_GO"

Accepted(events) == Len(events) >= 1 /\ ~IsError(events)

Requests == Users \X CoordInputs(game.goBoardSize) \X Colors

\* what submitGoMove would do with a request in the current state
MoveResult(q) == submitGoMove(game, now, q[1], q[2][1], q[2][2], q[3])

\* C4: for every board and every (row, col), a submitGoMove on an
\* out-of-bounds cell or on a cell that already holds a stone is rejected,
\* and the persisted match (the board included) is unchanged.
C4_BadCellRejected ==
  GoActive =>
    \A q \in Requests :
      ( \/ ~InBounds(game.goBoardSize, q[2][1], q[2][2])
        \/ game.goBoard[q[2][1]][q[2][2]] # NULL )
      => (IsError(MoveResult(q).emitted) /\ MoveResult(q).game = game)

\* a placement on a stone was turned down while the match was in play
C4_Witness ==
  /\ game.goPhase = "PLAY"
  /\ emitted = <<Err("Position already occupied")>>
  /\ \E rc \in Cells(game.goBoardSize) : game.goBoard[rc[1]][rc[2]] # NULL

\* C7: in PLAY a move or pass is accepted only from the participant whose
\* color holds the turn (host = black, guest = white); an accepted move or
\* pass that leaves the match in PLAY hands the turn to the other color; so
\* the color to move is black after an even number of accepted moves and
\* passes and white after an odd number.
C7_TurnAlternation ==
  GoActive =>
    /\ game.goPhase = "PLAY"
         => game.goCurrentTurn = (IF plies % 2 = 0 THEN "black" ELSE "white")
    /\ \A q \in Requests :
         Accepted(MoveResult(q).emitted)
         => /\ game.goPhase = "PLAY"
            /\ q[3] = game.goCurrentTurn
            /\ q[1] = (IF q[3] = "black" THEN game.host ELSE game.guest)
            /\ MoveResult(q).game.goPhase = "PLAY"
                 => MoveResult(q).game.goCurrentTurn = Other(q[3])
    /\ \A userId \in Users :
         Accepted(passGo(game, now, userId, build).emitted)
         => /\ game.goPhase = "PLAY"
            /\ userId = (IF game.goCurrentTurn = "black" THEN game.host ELSE game.guest)
            /\ passGo(game, now, userId, build).game.goPhase = "PLAY"
                 => passGo(game, now, userId, build).game.goCurrentTurn
                      = Other(game.goCurrentTurn)

\* white has answered black's first move and the turn is back with black
C7_Witness ==
  /\ game.goPhase = "PLAY"
  /\ plies = 2
  /\ Len(emitted) = 1 /\ emitted[1].ev = "goMove" /\ emitted[1].lastMove.color = "white"
  /\ game.goCurrentTurn = "black"

(* ------------------- placements, position by position ------------------ *)

InPlay == GoActive /\ game.goPhase = "PLAY"

\* requests of the participant on turn, with its color, on an empty intersection
OnTurnRequests ==
  {q \in Requests :
     /\ q[3] = game.goCurrentTurn
     /\ q[1] = (IF q[3] = "black" THEN game.host ELSE game.guest)
     /\ q[2] \in Cells(game.goBoardSize)
     /\ At(game.goBoard, q[2]) = NULL}

\* the position with the stone set down and nothing taken off yet
PlacedOn(board, cell, color) == SetCell(board, cell[1], cell[2], color)

\* the stones of the opponent's groups that touch the new stone and are left
\* without a liberty
DeadOpponents(placed, cell, color) ==
  UNION {G \in {Component(placed, d) :
                  d \in {e \in Cells(BoardLength(placed)) :
                           Adjacent(e, cell) /\ At(placed, e) = Other(color)}} :
           Liberties(placed, G) = {}}

Cleared(board, S) ==
  [r \in DOMAIN board |-> [c \in DOMAIN board[r] |-> IF <<r, c>> \in S THEN NULL ELSE board[r][c]]]

\* the position a placement leads to
Resulting(board, cell, color) ==
  Cleared(PlacedOn(board, cell, color),
          DeadOpponents(PlacedOn(board, cell, color), cell, color))

Fingerprint(q) == getPositionHash(Resulting(game.goBoard, q[2], q[3]), Other(q[3]))

InHistory(h) == \E k \in 1..Len(game.goPositionHashes) : game.goPositionHashes[k] = h

SuperkoError == Err("Superko rule: Cannot repeat a previous board position")

SuicideError == Err("Suicide rule: Cannot place stone that would capture your own group")

\* C1: every accepted submitGoMove stores the fingerprint of (board after
\* captures, opponent to move), and that fingerprint was not in the stored
\* history before; a placement whose fingerprint is already in the history
\* is rejected and the match is left as it was.
C1_Superko ==
  InPlay =>
    \A q \in Requests :
      /\ Accepted(MoveResult(q).emitted)
           => /\ q \in OnTurnRequests
              /\ MoveResult(q).game.goBoard = Resulting(game.goBoard, q[2], q[3])
              /\ ~InHistory(Fingerprint(q))
              /\ MoveResult(q).game.goPositionHashes
                   = Append(game.goPositionHashes, Fingerprint(q))
      /\ (q \in OnTurnRequests /\ InHistory(Fingerprint(q)))
           => /\ IsError(MoveResult(q).emitted)
              /\ MoveResult(q).game = game

\* a placement was turned down because it would repeat a position
C1_Witness ==
  /\ InPlay
  /\ emitted = <<SuperkoError>>
  /\ \E q \in OnTurnRequests : InHistory(Fingerprint(q))

\* C2: for every legal position, color to move and empty intersection,
\* checkCaptures returns each stone of every opposing group that touches the
\* new stone and has no liberty left, once, and nothing else; taking the
\* returned stones off removes exactly those stones; an accepted placement
\* persists that board and reports that many captures.
C2_CaptureExact ==
  (InPlay /\ emitted = << >>) =>
    \A q \in OnTurnRequests :
      LET placed   == PlacedOn(game.goBoard, q[2], q[3])
          captured == checkCaptures(placed, q[2][1], q[2][2], Other(q[3]))
          dead     == DeadOpponents(placed, q[2], q[3])
          r        == MoveResult(q)
      IN  /\ {captured[k] : k \in 1..Len(captured)} = dead
          /\ Len(captured) = Cardinality(dead)
          /\ RemoveCaptured(placed, captured, 1) = Cleared(placed, dead)
          /\ Accepted(r.emitted)
               => /\ r.game.goBoard = Cleared(placed, dead)
                  /\ r.emitted[1].captured = Cardinality(dead)

\* the last placement took two or more stones off the board
C2_Witness ==
  /\ InPlay
  /\ Len(emitted) = 1 /\ emitted[1].ev = "goMove" /\ emitted[1].captured >= 2
  /\ game.goBoard
       = Resulting(game.goPreviousBoard,
                   <<emitted[1].lastMove.row, emitted[1].lastMove.col>>,
                   emitted[1].lastMove.color)

\* C3: a placement that captures nothing and leaves the group of the new
\* stone without a liberty is rejected as suicide and the match is left as
\* it was; a placement that captures at least one stone is never rejected as
\* suicide, whatever the liberties of its own group before the captured
\* stones come off: it is accepted unless it repeats a position.
C3_SuicideAndCapturePrecedence ==
  InPlay =>
    \A q \in OnTurnRequests :
      /\ ( /\ DeadOpponents(PlacedOn(game.goBoard, q[2], q[3]), q[2], q[3]) = {}
           /\ Liberties(PlacedOn(game.goBoard, q[2], q[3]),
                        Component(PlacedOn(game.goBoard, q[2], q[3]), q[2])) = {} )
           => /\ MoveResult(q).emitted = <<SuicideError>>
              /\ MoveResult(q).game = game
      /\ DeadOpponents(PlacedOn(game.goBoard, q[2], q[3]), q[2], q[3]) # {}
           => /\ MoveResult(q).emitted # <<SuicideError>>
              /\ ~InHistory(Fingerprint(q)) => Accepted(MoveResult(q).emitted)

\* the last placement filled the last liberty of its own group and was
\* accepted because it captured
C3_Witness ==
  /\ InPlay
  /\ Len(emitted) = 1 /\ emitted[1].ev = "goMove" /\ emitted[1].captured >= 1
  /\ Liberties(PlacedOn(game.goPreviousBoard,
                        <<emitted[1].lastMove.row, emitted[1].lastMove.col>>,
                        emitted[1].lastMove.color),
               Component(PlacedOn(game.goPreviousBoard,
                                  <<emitted[1].lastMove.row, emitted[1].lastMove.col>>,
                                  emitted[1].lastMove.color),
                         <<emitted[1].lastMove.row, emitted[1].lastMove.col>>)) = {}

(* --------------------------- phases of a match ------------------------ *)

\* the handler turned the request down and left the match as it was
Rejected(r) == IsError(r.emitted) /\ r.game = game /\ r.stats = 0

\* C5: once the persisted phase is COMPLETE, every submitGoMove, passGo,
\* toggleGoDeadStone, finalizeGoScore and resignGo request is rejected and
\* the periodic sweep writes nothing, so the match (phase, board, clocks and
\* final score included) is left as it is by every one of them.
C5_CompleteIsTerminal ==
  (GoActive /\ game.goPhase = "COMPLETE") =>
    /\ \A q \in Requests : Rejected(MoveResult(q))
    /\ \A userId \in Users : Rejected(passGo(game, now, userId, build))
    /\ \A userId \in Users, rc \in CoordInputs(game.goBoardSize) :
         Rejected(toggleGoDeadStone(game, userId, rc[1], rc[2]))
    /\ \A userId \in Users, method \in {"chinese", "japanese"} :
         Rejected(finalizeGoScore(game, userId, method))
    /\ build = "part_004" => \A userId \in Users : Rejected(resignGo(game, userId))
    /\ \A t \in now..MaxNow : ~Sweep(game, t, build).saved

\* a request reached a finished match whose clocks were running, and was
\* turned down
C5_Witness ==
  /\ GoActive
  /\ game.goPhase = "COMPLETE"
  /\ game.goTimeControl.mode # "none"
  /\ game.goTimeExpired = NULL
  /\ emitted = <<Err("Game is already complete")>>

\* the last handler was a pass that brought the pass count to two
AfterDoublePass ==
  /\ Len(emitted) >= 1
  /\ emitted[1].ev = "goPass"
  /\ emitted[1].consecutivePasses >= 2

\* C6: after two consecutive accepted passes the match has left PLAY with
\* the pending scoring method at the default (chinese): socket/gameSocket.js
\* leaves it in SCORING with no confirmation and no final score, while the
\* later revision of the socket module scores at once and persists COMPLETE
\* with a final score by the default method.
C6_DoublePassLeavesPlay ==
  AfterDoublePass =>
    /\ game.goPhase # "PLAY"
    /\ game.goPendingScoringMethod = DEFAULT_SCORING_METHOD
    /\ build = "gameSocket"
         => /\ game.goPhase = "SCORING"
            /\ game.goScoringConfirmations = << >>
            /\ game.goFinalScore = NullScore
            /\ Len(emitted) = 2 /\ emitted[2].ev = "goScoringStart"
    /\ build = "part_004"
         => /\ game.goPhase = "COMPLETE"
            /\ game.status = "COMPLETE"
            /\ game.goFinalScore # NullScore
            /\ game.goFinalScore.method = DEFAULT_SCORING_METHOD
            /\ Len(emitted) = 2 /\ emitted[2].ev = "goScoreFinalized"

\* C6 as stated: after two consecutive accepted passes the phase is SCORING
\* and the pending scoring method is chinese.
C6_DoublePassEntersScoring ==
  AfterDoublePass =>
    /\ game.goPhase = "SCORING"
    /\ game.goPendingScoringMethod = "chinese"

\* both players passed and the match was scored on the spot
C6_Witness ==
  /\ AfterDoublePass
  /\ game.goConsecutivePasses = 2
  /\ game.goPhase = "COMPLETE"
  /\ game.goFinalScore # NullScore

(* ------------------------ scores, position by position ----------------- *)

\* the maximal connected sets of empty intersections
EmptyRegions(board) ==
  {Component(board, d) : d \in {c \in Cells(BoardLength(board)) : At(board, c) = NULL}}

\* the colors of the stones next to a cell of the region
BorderColors(board, R) ==
  {At(board, d) : d \in {c \in Cells(BoardLength(board)) :
                           At(board, c) # NULL /\ \E e \in R : Adjacent(c, e)}}

\* the intersections of the empty regions bordered by that color alone
TerritoryOf(board, color) ==
  Cardinality(UNION {R \in EmptyRegions(board) : BorderColors(board, R) = {color}})

StonesOf(board, color) ==
  Cardinality({d \in Cells(BoardLength(board)) : At(board, d) = color})

\* C8: analyzeTerritory credits a color with the size of a maximal connected
\* empty region exactly when the stones next to the region are all of that
\* color and there is at least one; a region next to both colors or to no
\* stone is credited to neither: the territory of each color in a final
\* score is the number of intersections of the regions so credited.
C8_TerritoryAttribution ==
  (GoActive /\ game.goFinalScore # NullScore) =>
    \A color \in Colors :
      game.goFinalScore[color].territory = TerritoryOf(game.goBoard, color)

\* a finished match in which black was credited a region while another
\* region, next to both colors, went to neither
C8_Witness ==
  /\ GoActive
  /\ game.goFinalScore # NullScore
  /\ game.goFinalScore.black.territory > 0
  /\ game.goFinalScore.white.territory = 0
  /\ \E R \in EmptyRegions(game.goBoard) : BorderColors(game.goBoard, R) = Colors

\* C9: a Chinese final score is stones + territory for black and stones +
\* territory + komi for white; a Japanese one is territory + captures for
\* black and territory + captures + komi for white; the winner is the color
\* with the strictly higher score and is null exactly when the scores are
\* equal; with no stone on the board and no capture black scores 0, white
\* scores komi and white wins.
C9_ScoringFormulas ==
  (GoActive /\ game.goFinalScore # NullScore) =>
    /\ game.goFinalScore.method = "chinese"
         => /\ game.goFinalScore.black.score
                 = Points(StonesOf(game.goBoard, "black") + TerritoryOf(game.goBoard, "black"))
            /\ game.goFinalScore.white.score
                 = Points(StonesOf(game.goBoard, "white") + TerritoryOf(game.goBoard, "white"))
                   + game.goKomi
    /\ game.goFinalScore.method = "japanese"
         => /\ game.goFinalScore.black.score
                 = Points(TerritoryOf(game.goBoard, "black") + game.goCapturedBlack)
            /\ game.goFinalScore.white.score
                 = Points(TerritoryOf(game.goBoard, "white") + game.goCapturedWhite)
                   + game.goKomi
    /\ game.goFinalScore.winner = NULL
         <=> game.goFinalScore.black.score = game.goFinalScore.white.score
    /\ game.goFinalScore.winner = "black"
         <=> game.goFinalScore.black.score > game.goFinalScore.white.score
    /\ game.goFinalScore.winner = "white"
         <=> game.goFinalScore.white.score > game.goFinalScore.black.score
    /\ ( /\ StonesOf(game.goBoard, "black") + StonesOf(game.goBoard, "white") = 0
         /\ game.goCapturedBlack = 0 /\ game.goCapturedWhite = 0 )
         => /\ game.goFinalScore.black.score = 0
            /\ game.goFinalScore.white.score = game.goKomi
            /\ game.goFinalScore.winner = "white"

\* a finished match with equal scores and no winner
C9_Witness ==
  /\ GoActive
  /\ game.goFinalScore # NullScore
  /\ game.goFinalScore.black.score = game.goFinalScore.white.score
  /\ game.goFinalScore.winner = NULL

\* black score minus white score of a score summary
Margin(summary) == summary.black.score - summary.white.score

\* the margin under the method the match was not scored by, on the same
\* board, capture tally and komi
OtherMargin ==
  Margin(IF game.goFinalScore.method = "chinese"
         THEN calculateJapaneseScore(game.goBoard,
                                     [black |-> game.goCapturedBlack,
                                      white |-> game.goCapturedWhite],
                                     game.goKomi)
         ELSE calculateChineseScore(game.goBoard,
                                    [black |-> game.goCapturedBlack,
                                     white |-> game.goCapturedWhite],
                                    game.goKomi))

ChineseMargin ==
  IF game.goFinalScore.method = "chinese" THEN Margin(game.goFinalScore) ELSE OtherMargin

JapaneseMargin ==
  IF game.goFinalScore.method = "japanese" THEN Margin(game.goFinalScore) ELSE OtherMargin

\* C10: for every board, capture tally and komi, the Chinese margin (black
\* score minus white score) exceeds the Japanese margin on the same inputs
\* by (stones_black - stones_white) - (captures_black - captures_white).
C10_MarginDifference ==
  (GoActive /\ game.goFinalScore # NullScore) =>
    ChineseMargin - JapaneseMargin
      = Points(StonesOf(game.goBoard, "black") - StonesOf(game.goBoard, "white"))
        - Points(game.goCapturedBlack - game.goCapturedWhite)

\* C10 as stated: the two margins differ by exactly stones_black -
\* stones_white.
C10_MarginDifferenceIsStones ==
  (GoActive /\ game.goFinalScore # NullScore) =>
    ChineseMargin - JapaneseMargin
      = Points(StonesOf(game.goBoard, "black") - StonesOf(game.goBoard, "white"))

\* a match scored with unequal capture tallies
C10_Witness ==
  /\ GoActive
  /\ game.goFinalScore # NullScore
  /\ game.goCapturedBlack # game.goCapturedWhite
  /\ StonesOf(game.goBoard, "black") # StonesOf(game.goBoard, "white")

(* ------------------------------ the clocks ---------------------------- *)

\* the participant who plays a color
PlayerOf(color) == IF color = "black" THEN game.host ELSE game.guest

\* whole seconds since the clock-start timestamp
SecondsOnClock == (now - game.goLastMoveTime) \div IntervalsPerSecond

\* a match in play under the given time control
OnClock(mode) == InPlay /\ game.goTimeControl.mode = mode

\* what the placements and the pass of the participant on turn leave behind,
\* when they pass the checks of the handler
MoverResults ==
  {MoveResult(q) : q \in {x \in Requests : ~IsError(MoveResult(x).emitted)}}
    \cup {passGo(game, now, u, build) :
            u \in {x \in Users : ~IsError(passGo(game, now, x, build).emitted)}}

\* Fischer 60 s + 5 s, black answering at once
FischerScenario ==
  submitGoMove(startGo(NewGame, 0, HOST,
                       [mode |-> "fischer", mainTime |-> 60, increment |-> 5,
                        byoYomiTime |-> 0, byoYomiPeriods |-> 0]).game,
               0, HOST, 0, 0, "black").game

\* C11: under Fischer control an accepted move or pass by color X after e
\* whole seconds, X holding main time m, leaves X with m - e + increment and
\* moves the clock-start timestamp to now when m > e, and leaves X with 0,
\* flagged expired, when m <= e; 60 + 5 answered at once gives 65.
C11_FischerMoveUpdate ==
  /\ FischerScenario.goTimeState["black"].mainTime = 65
  /\ FischerScenario.goTimeExpired = NULL
  /\ OnClock("fischer") =>
       LET X == game.goCurrentTurn
           m == game.goTimeState[X].mainTime
           e == SecondsOnClock
       IN  \A r \in MoverResults :
             IF m > e
             THEN /\ r.game.goTimeState[X].mainTime = m - e + game.goTimeControl.increment
                  /\ r.game.goLastMoveTime = now
                  /\ r.game.goTimeExpired = NULL
             ELSE /\ r.game.goTimeState[X].mainTime = 0
                  /\ r.game.goTimeExpired = X

\* black moved a whole second into a Fischer match and holds the main time
\* it started with: one second spent, the increment gained
C11_Witness ==
  /\ OnClock("fischer")
  /\ Len(emitted) = 1 /\ emitted[1].ev = "goMove" /\ emitted[1].lastMove.color = "black"
  /\ plies = 1
  /\ now >= IntervalsPerSecond
  /\ game.goLastMoveTime = now
  /\ game.goTimeState["black"].mainTime = game.goTimeControl.mainTime

\* the step is a placement or a pass of the given color that was accepted
\* and did not end the match
MovedOn(color) ==
  /\ Len(emitted') >= 1
  /\ \/ emitted'[1].ev = "goMove" /\ emitted'[1].lastMove.color = color
     \/ emitted'[1].ev = "goPass" /\ game.goCurrentTurn = color
  /\ game'.goTimeExpired = NULL

\* the step is a write of the periodic sweep
SweepStep == now' = now /\ Len(emitted') >= 1 /\ emitted'[1].ev = "goTimeUpdate"

\* the step is an answer to a start-go request
StartStep == Len(emitted') = 1 /\ emitted'[1].ev = "http"

\* C12: under Fischer control, in any step that is a tick, a move or a pass,
\* a color's main time increases only when that color's own move or pass is
\* accepted without expiring, and then by at most the increment; a tick
\* leaves the color on turn with its main time less the elapsed seconds
\* (floored at zero), never more than before, and the other color untouched.
C12_FischerMonotone ==
  [][ (OnClock("fischer") /\ ~StartStep) =>
        /\ \A c \in Colors :
             game'.goTimeState[c].mainTime > game.goTimeState[c].mainTime
             => /\ c = game.goCurrentTurn
                /\ MovedOn(c)
                /\ game'.goTimeState[c].mainTime
                     <= game.goTimeState[c].mainTime + game.goTimeControl.increment
        /\ SweepStep =>
             /\ game'.goTimeState[game.goCurrentTurn].mainTime
                  = Max(0, game.goTimeState[game.goCurrentTurn].mainTime - SecondsOnClock)
             /\ game'.goTimeState[game.goCurrentTurn].mainTime
                  < game.goTimeState[game.goCurrentTurn].mainTime
             /\ game'.goTimeState[Other(game.goCurrentTurn)]
                  = game.goTimeState[Other(game.goCurrentTurn)]
    ]_vars

\* a late sweep has taken two seconds at once from black, who had gained the
\* increment on its first move
C12_Witness ==
  /\ OnClock("fischer")
  /\ plies = 2
  /\ Len(emitted) = 1 /\ emitted[1].ev = "goTimeUpdate"
  /\ game.goCurrentTurn = "black"
  /\ game.goTimeState["black"].mainTime
       = game.goTimeControl.mainTime + game.goTimeControl.increment - 2

\* the clock of the color on turn
TurnClock == game.goTimeState[game.goCurrentTurn]

\* a match under byo-yomi control in which the color on turn is in byo-yomi
InByoYomi == OnClock("japanese") /\ TurnClock.isByoYomi

\* C13: for a color already in byo-yomi, a move or pass whose elapsed time
\* is within the remaining period time keeps the period count, resets the
\* period timer to the configured period time and does not expire the
\* color; one whose elapsed time exceeds it takes one period off the count,
\* which is floored at zero, and the color is flagged expired exactly when
\* that leaves it without a period.
C13_ByoYomiMoveUpdate ==
  InByoYomi =>
    \A r \in MoverResults :
      LET after == r.game.goTimeState[game.goCurrentTurn]
      IN  IF SecondsOnClock <= TurnClock.byoYomiTime
          THEN /\ after.byoYomiPeriods = TurnClock.byoYomiPeriods
               /\ after.byoYomiTime = game.goTimeControl.byoYomiTime
               /\ r.game.goTimeExpired = NULL
          ELSE /\ after.byoYomiPeriods = Max(0, TurnClock.byoYomiPeriods - 1)
               /\ r.game.goTimeExpired = game.goCurrentTurn <=> after.byoYomiPeriods = 0
               /\ r.game.goTimeExpired \in {NULL, game.goCurrentTurn}

\* C13 as stated: a late move or pass takes exactly one period off the
\* count, and the color is flagged expired exactly when its period count is
\* zero after the move or pass.
C13_ByoYomiExactlyOne ==
  InByoYomi =>
    \A r \in MoverResults :
      LET after == r.game.goTimeState[game.goCurrentTurn]
      IN  /\ IF SecondsOnClock <= TurnClock.byoYomiTime
             THEN /\ after.byoYomiPeriods = TurnClock.byoYomiPeriods
                  /\ after.byoYomiTime = game.goTimeControl.byoYomiTime
             ELSE after.byoYomiPeriods = TurnClock.byoYomiPeriods - 1
          /\ r.game.goTimeExpired = game.goCurrentTurn <=> after.byoYomiPeriods = 0

\* a color given two periods has lost the second of them, and the match, by
\* a late move or pass
C13_Witness ==
  /\ GoActive
  /\ game.goTimeControl.mode = "japanese"
  /\ game.goTimeControl.byoYomiPeriods = 2
  /\ Len(emitted) = 1 /\ emitted[1].ev = "goTimeExpired"
  /\ game.goTimeExpired # NULL
  /\ game.goTimeState[emitted[1].expired].isByoYomi
  /\ game.goTimeState[emitted[1].expired].byoYomiPeriods = 0

\* C14: whichever path detects that a color has run out of time (a move, a
\* pass or the periodic sweep), the match is left in phase COMPLETE with
\* winner = the other color, reason "time" and no score breakdown, the same
\* record on all three paths.
C14_TimeLossResult ==
  (GoActive /\ game.goTimeExpired # NULL) =>
    /\ game.goPhase = "COMPLETE"
    /\ DOMAIN game.goFinalScore = {"winner", "reason", "message"}
    /\ game.goFinalScore.winner = Other(game.goTimeExpired)
    /\ game.goFinalScore.reason = "time"

(* ------------------------- the end of the match ----------------------- *)

Participants == {game.host, game.guest}

\* C15: a resignGo from a participant in any phase other than COMPLETE,
\* whoever holds the turn, leaves the match in COMPLETE with winner = the
\* color opposite to the resigner's, reason "resignation" and no score
\* breakdown; board, captures and clocks are as they were.
C15_Resignation ==
  (GoActive /\ game.goPhase # "COMPLETE") =>
    \A userId \in Participants :
      LET r == resignGo(game, userId)
      IN  /\ r.game.goPhase = "COMPLETE"
          /\ DOMAIN r.game.goFinalScore = {"winner", "reason", "message"}
          /\ r.game.goFinalScore.winner = Other(ExpectedColor(game, userId))
          /\ r.game.goFinalScore.reason = "resignation"
          /\ r.game.goBoard = game.goBoard
          /\ r.game.goCapturedBlack = game.goCapturedBlack
          /\ r.game.goCapturedWhite = game.goCapturedWhite
          /\ r.game.goTimeState = game.goTimeState
          /\ r.game.goLastMoveTime = game.goLastMoveTime
          /\ r.game.goTimeExpired = game.goTimeExpired

\* white resigned a timed match with stones on the board while black was to
\* move
C15_Witness ==
  /\ GoActive
  /\ game.goPhase = "COMPLETE"
  /\ Len(emitted) = 1 /\ emitted[1].ev = "goResigned"
  /\ emitted[1].resigningColor = "white"
  /\ game.goCurrentTurn = "black"
  /\ game.goFinalScore.winner = "black"
  /\ game.goTimeControl.mode # "none"
  /\ game.goBoard # createBoard(game.goBoardSize)

InScoring == GoActive /\ game.goPhase = "SCORING"

Methods == {"chinese", "japanese"}

\* the participants whose confirmation is on record
Confirmed == {game.goScoringConfirmations[k] : k \in 1..Len(game.goScoringConfirmations)}

OtherParticipant(userId) == IF userId = game.host THEN game.guest ELSE game.host

\* C16: in SCORING with host and guest present the match is finalized only
\* by a finalizeGoScore of one participant when the other participant's
\* confirmation of the same method is on record. A confirmation is on record
\* only for a participant who sent finalizeGoScore with the pending method
\* after the record was last emptied: a request adds at most its sender,
\* once, and cannot change the pending method while the record is not
\* empty; entering SCORING and every accepted dead-stone change empty it.
C16_ScoringConfirmation ==
  InScoring =>
    /\ Confirmed \subseteq Participants
    /\ Cardinality(Confirmed) = Len(game.goScoringConfirmations)
    /\ Len(game.goScoringConfirmations) <= 1
    /\ (Len(emitted) = 2 /\ emitted[2].ev = "goScoringStart") => Confirmed = {}
    /\ \A userId \in Users, method \in Methods :
         LET r     == finalizeGoScore(game, userId, method)
             after == {r.game.goScoringConfirmations[k] :
                         k \in 1..Len(r.game.goScoringConfirmations)}
         IN  /\ r.game.goPhase = "COMPLETE"
                  => /\ userId \in Participants
                     /\ OtherParticipant(userId) \in Confirmed
                     /\ game.goPendingScoringMethod = method
             /\ (r.game.goPhase = "SCORING" /\ ~IsError(r.emitted))
                  => /\ after = Confirmed \cup {userId}
                     /\ Cardinality(after) = Len(r.game.goScoringConfirmations)
                     /\ r.game.goPendingScoringMethod = method
                     /\ Confirmed # {} => game.goPendingScoringMethod = method
             /\ IsError(r.emitted) => r.game = game
    /\ \A userId \in Users, rc \in CoordInputs(game.goBoardSize) :
         LET t == toggleGoDeadStone(game, userId, rc[1], rc[2])
         IN  IF IsError(t.emitted) THEN t.game = game
             ELSE t.game.goScoringConfirmations = << >>

\* a match that entered the scoring phase by two passes was finalized with
\* Japanese scoring, which is not the method pending at the start
C16_Witness ==
  /\ GoActive
  /\ build = "gameSocket"
  /\ game.goPhase = "COMPLETE"
  /\ game.goConsecutivePasses >= 2
  /\ emitted = <<[ev |-> "goScoreFinalized", method |-> "japanese",
                  winner |-> game.goFinalScore.winner]>>

\* C17: a finalizeGoScore from either participant while the phase is PLAY
\* waits for no confirmation: the same request scores the board as it
\* stands with the requested method and leaves the match in COMPLETE.
C17_ForceEnd ==
  InPlay =>
    \A userId \in Participants, method \in Methods :
      LET r     == finalizeGoScore(game, userId, method)
          final == r.game.goFinalScore
      IN  /\ r.game.goPhase = "COMPLETE"
          /\ r.emitted = <<[ev |-> "goScoreFinalized", method |-> method,
                            winner |-> final.winner]>>
          /\ r.game.goBoard = game.goBoard
          /\ final.method = method
          /\ final.black.territory = TerritoryOf(game.goBoard, "black")
          /\ final.white.territory = TerritoryOf(game.goBoard, "white")
          /\ final.black.score =
               IF method = "chinese"
               THEN Points(StonesOf(game.goBoard, "black") + TerritoryOf(game.goBoard, "black"))
               ELSE Points(TerritoryOf(game.goBoard, "black") + game.goCapturedBlack)
          /\ final.white.score =
               game.goKomi
               + IF method = "chinese"
                 THEN Points(StonesOf(game.goBoard, "white") + TerritoryOf(game.goBoard, "white"))
                 ELSE Points(TerritoryOf(game.goBoard, "white") + game.goCapturedWhite)

\* a match with a stone on the board was ended from PLAY, before two passes,
\* and scored with the Japanese method
C17_Witness ==
  /\ GoActive
  /\ game.goPhase = "COMPLETE"
  /\ game.goConsecutivePasses < 2
  /\ game.goBoard # createBoard(game.goBoardSize)
  /\ game.goScoringConfirmations = << >>
  /\ emitted = <<[ev |-> "goScoreFinalized", method |-> "japanese",
                  winner |-> game.goFinalScore.winner]>>
  /\ game.goFinalScore.method = "japanese"

(* ------------------------------ rejections ---------------------------- *)

\* the placement fills the last liberty of its own group and captures nothing
SelfCapture(q) ==
  /\ DeadOpponents(PlacedOn(game.goBoard, q[2], q[3]), q[2], q[3]) = {}
  /\ Liberties(PlacedOn(game.goBoard, q[2], q[3]),
               Component(PlacedOn(game.goBoard, q[2], q[3]), q[2])) = {}

\* placements of a participant that come in the wrong phase, with the wrong
\* color or out of turn, or that are suicide or repeat a position
BadPlacements ==
  {q \in Requests :
     /\ q[1] \in Participants
     /\ \/ game.goPhase # "PLAY"
        \/ q[3] # ExpectedColor(game, q[1])
        \/ q[3] # game.goCurrentTurn
        \/ q \in OnTurnRequests /\ SelfCapture(q)
        \/ q \in OnTurnRequests /\ InHistory(Fingerprint(q))}

\* passes of a participant that come in the wrong phase or out of turn
BadPasses ==
  {userId \in Participants :
     game.goPhase # "PLAY" \/ ExpectedColor(game, userId) # game.goCurrentTurn}

\* C18: a submitGoMove or passGo that comes in the wrong phase, with the
\* wrong color or out of turn, or a placement that is suicide or repeats a
\* position, is answered with an error to the sender alone and leaves the
\* persisted match (board, turn, pass counter, captures, position history,
\* clocks, clock-start timestamp) exactly as it was; so does every other
\* refusal of the two handlers.
C18_RejectionLeavesState ==
  GoActive =>
    /\ \A q \in BadPlacements : Rejected(MoveResult(q))
    /\ \A userId \in BadPasses : Rejected(passGo(game, now, userId, build))
    /\ \A q \in Requests :
         IsError(MoveResult(q).emitted) => MoveResult(q).game = game
    /\ \A userId \in Users :
         IsError(passGo(game, now, userId, build).emitted)
         => passGo(game, now, userId, build).game = game

\* a request out of turn was refused after a pass and placements had been
\* made; pass counter, captures and history are there to be kept
C18_Witness ==
  /\ InPlay
  /\ emitted = <<Err("Not your turn")>>
  /\ game.goConsecutivePasses = 1
  /\ Len(game.goPositionHashes) >= 3
  /\ game.goCapturedBlack + game.goCapturedWhite >= 1

\* what a finalizeGoScore request may carry as its method: the two methods,
\* and nothing (which is read as Chinese)
MethodInputs == Methods \cup {NULL}

\* method === 'japanese' ? 'japanese' : 'chinese'
Selected(method) == IF method = "japanese" THEN "japanese" ELSE "chinese"

\* C19: in SCORING, while at least one confirmation is on record, a
\* finalizeGoScore of a participant that names a method other than the
\* pending one is refused with the scoring-in-progress error, and the match
\* (pending method and confirmations included) is left as it was.
C19_ConflictingMethodRejected ==
  (InScoring /\ Len(game.goScoringConfirmations) >= 1) =>
    \A userId \in Participants, method \in MethodInputs :
      Selected(method) # game.goPendingScoringMethod
      => LET r == finalizeGoScore(game, userId, method)
         IN  /\ r.emitted = <<Err("Scoring already in progress")>>
             /\ r.game.goPendingScoringMethod = game.goPendingScoringMethod
             /\ r.game.goScoringConfirmations = game.goScoringConfirmations
             /\ r.game = game

\* a proposal of Chinese scoring was refused while a confirmation of
\* Japanese scoring was on record
C19_Witness ==
  /\ InScoring
  /\ emitted = <<Err("Scoring already in progress")>>
  /\ Len(game.goScoringConfirmations) = 1
  /\ game.goPendingScoringMethod = "japanese"

\* the intersections marked dead in a match document
DeadCells(g) == {<<g.goDeadStones[k].row, g.goDeadStones[k].col>> : k \in 1..Len(g.goDeadStones)}

\* C20: every accepted toggleGoDeadStone, whether it marks the stone or
\* takes the mark off, leaves the confirmation record empty, so that no
\* single finalizeGoScore after it can finalize the match on the strength
\* of a confirmation given before it.
C20_ToggleClearsConfirmations ==
  InScoring =>
    \A userId \in Users, rc \in CoordInputs(game.goBoardSize) :
      LET t == toggleGoDeadStone(game, userId, rc[1], rc[2])
      IN  ~IsError(t.emitted)
          => /\ t.game.goScoringConfirmations = << >>
             /\ DeadCells(t.game) = IF rc \in DeadCells(game)
                                    THEN DeadCells(game) \ {rc}
                                    ELSE DeadCells(game) \cup {rc}
             /\ t.game.goPhase = "SCORING"
             /\ \A u \in Users, method \in MethodInputs :
                  finalizeGoScore(t.game, u, method).game.goPhase = "SCORING"

\* a mark was taken off a stone after a participant had confirmed Japanese
\* scoring: the method is still pending, the confirmation is gone
C20_Witness ==
  /\ InScoring
  /\ Len(emitted) = 1 /\ emitted[1].ev = "goDeadStonesUpdated"
  /\ emitted[1].deadStones = << >>
  /\ game.goPendingScoringMethod = "japanese"
  /\ game.goScoringConfirmations = << >>


\* the marked intersections of the board that hold a stone
HeldMarks(g) ==
  {d \in DeadCells(g) \cap Cells(BoardLength(g.goBoard)) : At(g.goBoard, d) # NULL}

\* the marked stones of a color
MarkedStones(g, color) == Cardinality({d \in HeldMarks(g) : At(g.goBoard, d) = color})

\* the match when its scoring is finalized by the second participant
FinalizedBySecond(g) ==
  finalizeGoScore(g, CHOOSE u \in Participants : u \notin Confirmed,
                  g.goPendingScoringMethod).game

\* the captures of a color recorded in a match document
PlayTally(g, color) == IF color = "black" THEN g.goCapturedBlack ELSE g.goCapturedWhite

\* C21: at finalization every marked intersection that holds a stone is
\* empty on the board whose territory is analysed, and the capture tally
\* the score is computed from and that is stored with the match is the
\* tally of the play plus, for each color, the number of marked stones of
\* the other color; a mark on an empty intersection, a mark outside the
\* board and a second mark on the same intersection add nothing.
C21_DeadStoneRemoval ==
  (InScoring /\ Cardinality(Confirmed) = 1) =>
    LET f       == FinalizedBySecond(game)
        cleaned == Cleared(game.goBoard, HeldMarks(game))
        removed == removeDeadStonesForScoring(game.goBoard, game.goDeadStones)
    IN  /\ f.goPhase = "COMPLETE"
        /\ removed.board = cleaned
        /\ \A color \in Colors :
             /\ removed.bonus[color] = MarkedStones(game, Other(color))
             /\ f.goFinalScore[color].territory = TerritoryOf(cleaned, color)
             /\ f.goFinalScore[color].captures
                  = PlayTally(game, color) + MarkedStones(game, Other(color))
             /\ PlayTally(f, color) = f.goFinalScore[color].captures
        /\ f.goFinalScore.black.score
             = Points(TerritoryOf(cleaned, "black") + PlayTally(game, "black")
                        + MarkedStones(game, "white"))
        /\ f.goFinalScore.white.score
             = Points(TerritoryOf(cleaned, "white") + PlayTally(game, "white")
                        + MarkedStones(game, "black")) + game.goKomi

\* a match finalized with a black and a white stone marked dead: each color
\* has one capture more than in play, and the freed corner is black's
C21_Witness ==
  /\ GoActive /\ game.goPhase = "COMPLETE"
  /\ Len(game.goDeadStones) = 2
  /\ At(game.goBoard, <<0, 0>>) = "white" /\ At(game.goBoard, <<1, 1>>) = "black"
  /\ game.goCapturedBlack = MaxTally + 1 /\ game.goCapturedWhite = 1
  /\ game.goFinalScore.black.territory >= 1


\* the clock of the color that does not hold the turn
IdleClock(g) == g.goTimeState[Other(game.goCurrentTurn)]

\* C22: a sweep, an accepted placement and an accepted pass leave main
\* time, byo-yomi flag, period time and period count of the color that does
\* not hold the turn at the start of the operation as they were; only the
\* clock of the color on turn can change.
C22_OnlyTurnHolderClock ==
  (GoActive /\ game.goTimeControl.mode # "none") =>
    /\ \A r \in MoverResults : IdleClock(r.game) = IdleClock(game)
    /\ IdleClock(Sweep(game, now, build).game) = IdleClock(game)

\* a timed match in play in which at least a second has run on the clock of
\* the color on turn and that color can move, pass or be swept, after the
\* other color has moved and holds a clock of its own
C22_Witness ==
  /\ InPlay /\ game.goTimeControl.mode # "none"
  /\ SecondsOnClock >= 1
  /\ plies >= 1
  /\ MoverResults # {}
  /\ \E r \in MoverResults : r.game.goTimeState # game.goTimeState
  /\ Sweep(game, now, build).saved
  /\ IdleClock(game) # TurnClock


\* the clock fields of a match document
ClockOf(g) == <<g.goTimeState, g.goLastMoveTime>>

\* the documents the handler in flight would save for an accepted
\* placement or pass
HandlerMoverSaves ==
  LET read == inflight.handler.doc
      rs   == {submitGoMove(read, now, q[1], q[2][1], q[2][2], q[3]) : q \in Requests}
                \cup {passGo(read, now, u, build) : u \in Users}
  IN  {Saved(game, read, r.game) : r \in {x \in rs : ~IsError(x.emitted)}}

\* C23: when the stored match carries an expired flag, the operations that
\* come later leave its clock fields as they are: a placement or pass of a
\* handler that read the match with the flag set, and the completion of
\* the sweep that set the flag, store the same main time, byo-yomi flag,
\* period time, period count and clock-start timestamp.
C23_ExpiredClockFrozen ==
  game.goTimeExpired # NULL =>
    /\ (inflight.handler.pc = "loaded" /\ inflight.handler.doc.goTimeExpired # NULL)
         => \A g \in HandlerMoverSaves : ClockOf(g) = ClockOf(game)
    /\ inflight.sweep.pc = "expiring"
         => ClockOf(SweepWrite(game, inflight.sweep, now, build).game) = ClockOf(game)


\* the stored match with every intersection of its board empty
Blank == [game EXCEPT !.goBoard = createBoard(game.goBoardSize)]

\* the callers without authority over a color: someone outside the match,
\* and a participant claiming the color of the other one
Unauthorized(userId, color) ==
  ~IsParticipant(game, userId) \/ color # ExpectedColor(game, userId)

\* the placement requests of callers without authority over the color
Intruders == {q \in Requests : Unauthorized(q[1], q[3])}

SweepInFlight == inflight.sweep.pc # "idle"

\* C25: when the stored match is COMPLETE while a sweep still holds the
\* document it read, the save of the sweep leaves the stored match as it
\* is: phase, final score and every other field stay as the completing
\* handler stored them.
C25_TickRecheck ==
  (SweepInFlight /\ game.goPhase = "COMPLETE")
    => SweepWrite(game, inflight.sweep, now, build).game = game


\* what a placement or pass stores and the sweep never writes
MoverFields(g) == <<g.goBoard, g.goCurrentTurn, g.goConsecutivePasses,
                    g.goCapturedBlack, g.goCapturedWhite>>

\* a placement or pass was saved after the sweep in flight read the match
MovedSinceRead ==
  /\ inflight.sweep.pc = "loaded"
  /\ game.goPhase = "PLAY"
  /\ MoverFields(inflight.sweep.doc) # MoverFields(game)

\* C26: when a placement or pass has been saved after the sweep read the
\* match and play goes on, the save of the sweep replaces nothing of what the handler
\* stored: board, turn, captures, both clocks and the clock-start timestamp
\* of the stored match stay as they are.
C26_WritesSerialized ==
  MovedSinceRead => SweepWrite(game, inflight.sweep, now, build).game = game


\* the first turn of a timed match: it began with the match, at time zero,
\* with the configured main time on the clock
FirstTurn == InPlay /\ plies = 0 /\ game.goTimeControl.mode # "none"

\* whole seconds of real time since the match began
SecondsPlayed == now \div IntervalsPerSecond

\* the main time a clock record has lost since the start of the match
MainTimeDeducted(clock) == game.goTimeControl.mainTime - clock.mainTime

\* the main time charged to the mover by a placement or pass, the Fischer
\* increment it was credited with put aside
ChargedByMove(r) ==
  LET clock == r.game.goTimeState[game.goCurrentTurn]
  IN  IF game.goTimeControl.mode = "fischer" /\ r.game.goTimeExpired = NULL
      THEN MainTimeDeducted(clock) + game.goTimeControl.increment
      ELSE MainTimeDeducted(clock)

\* C27: no second is charged twice. In the first turn of a match the main
\* time the sweeps have deducted from the color on turn is at most the
\* whole seconds since the start, and so is the total with the deduction of
\* the placement or pass that ends the turn.
C27_NoDoubleCounting ==
  FirstTurn =>
    /\ MainTimeDeducted(TurnClock) <= SecondsPlayed
    /\ \A r \in MoverResults : ChargedByMove(r) <= SecondsPlayed


\* C28: the position history never holds more than MAX_POSITION_HISTORY
\* fingerprints. An accepted placement appends the fingerprint of the new
\* position as the last entry, after dropping the first entry when the
\* history is full, and keeps the others in their order; a rejected
\* placement and a pass leave the history as it is.
C28_BoundedHistory ==
  InPlay =>
    LET history == game.goPositionHashes
    IN  /\ Len(history) <= MAX_POSITION_HISTORY
        /\ \A q \in Requests :
             MoveResult(q).game.goPositionHashes
               = IF IsError(MoveResult(q).emitted) THEN history
                 ELSE IF Len(history) = MAX_POSITION_HISTORY
                 THEN Append(Tail(history), Fingerprint(q))
                 ELSE Append(history, Fingerprint(q))
        /\ \A userId \in Users :
             passGo(game, now, userId, build).game.goPositionHashes = history

\* a placement was accepted on a full history: the history is still full,
\* its first entry is the second of the earlier positions, its last the
\* position on the board
C28_Witness ==
  /\ InPlay
  /\ Len(emitted) = 1 /\ emitted[1].ev = "goMove"
  /\ Len(game.goPositionHashes) = MAX_POSITION_HISTORY
  /\ game.goPositionHashes[1] = getPositionHash(EarlierBoard(2), "black")
  /\ game.goPositionHashes[MAX_POSITION_HISTORY]
       = getPositionHash(game.goBoard, game.goCurrentTurn)


\* the answers to the passes that are accepted: the turn passes on
AcceptedPasses ==
  {p \in {passGo(game, now, u, build) : u \in Users} : p.emitted[1].ev = "goPass"}

\* the answers to the placements that are accepted: the stone stays
AcceptedPlacements ==
  {m \in {MoveResult(q) : q \in Requests} : m.emitted[1].ev = "goMove"}

\* C29: an accepted pass leaves board, capture tallies and position
\* history as they are, adds one to the consecutive-pass counter, gives
\* the turn to the other color, and updates the clock of the passing color
\* as updateTimeOnMove does for a placement at the same moment, Fischer
\* increment included; an accepted placement sets the counter to zero.
C29_PassEffect ==
  InPlay =>
    /\ \A p \in AcceptedPasses :
         /\ p.game.goBoard = game.goBoard
         /\ p.game.goCapturedBlack = game.goCapturedBlack
         /\ p.game.goCapturedWhite = game.goCapturedWhite
         /\ p.game.goPositionHashes = game.goPositionHashes
         /\ p.game.goConsecutivePasses = game.goConsecutivePasses + 1
         /\ p.game.goCurrentTurn = Other(game.goCurrentTurn)
         /\ ClockOf(p.game) = ClockOf(updateTimeOnMove(game, game.goCurrentTurn, now))
         /\ \A m \in AcceptedPlacements : ClockOf(m.game) = ClockOf(p.game)
         /\ game.goTimeControl.mode = "fischer"
              => p.game.goTimeState[game.goCurrentTurn].mainTime
                   = TurnClock.mainTime - SecondsOnClock + game.goTimeControl.increment
    /\ \A m \in AcceptedPlacements : m.game.goConsecutivePasses = 0

\* a pass was accepted in a Fischer match a second or more after the start:
\* the passer holds the configured main time again, the second charged made
\* up by the increment, and the other color is on turn after one pass
C29_Witness ==
  /\ OnClock("fischer")
  /\ Len(emitted) = 1 /\ emitted[1].ev = "goPass"
  /\ game.goConsecutivePasses = 1
  /\ now >= IntervalsPerSecond
  /\ game.goLastMoveTime = now
  /\ IdleClock(game).mainTime
       = game.goTimeControl.mainTime - 1 + game.goTimeControl.increment
  /\ AcceptedPlacements # {}


\* the clock of the color on turn after an operation that brought its
\* main time to zero is in byo-yomi as configured
EntersByoYomi(g) ==
  LET clock == g.goTimeState[game.goCurrentTurn]
  IN  clock.mainTime = 0
        => /\ clock.isByoYomi
           /\ clock.byoYomiTime = game.goTimeControl.byoYomiTime
           /\ clock.byoYomiPeriods = game.goTimeControl.byoYomiPeriods
           /\ g.goTimeExpired = NULL

\* C30: in a Japanese match, when the color on turn has main time left,
\* every accepted placement, accepted pass and sweep that leaves it with no
\* main time leaves it in byo-yomi with the configured period time and the
\* configured number of periods, and without the expired flag.
C30_ByoYomiEntry ==
  (OnClock("japanese") /\ ~TurnClock.isByoYomi /\ TurnClock.mainTime > 0) =>
    /\ \A r \in MoverResults : EntersByoYomi(r.game)
    /\ EntersByoYomi(Sweep(game, now, build).game)


(* ----------------------------- statistics ------------------------------ *)

\* a step that takes a match of two participants to COMPLETE
Completes ==
  /\ game.goPhase # "COMPLETE"
  /\ game'.goPhase = "COMPLETE"
  /\ game'.host # NULL
  /\ game'.guest # NULL

\* C31: every step that takes a Go match of two participants to COMPLETE
\* (a placement or pass that finds the clock expired, the second pass, a
\* finalization, a resignation, the sweep that finds the clock expired)
\* runs the statistics update for the match exactly once.
C31_StatisticsTrigger ==
  [][Completes => statsUpdates' = statsUpdates + 1]_vars

(* ------------------------- match after match --------------------------- *)

\* the match was just created or started under a timed mode: no placement,
\* no pass and no sweep yet
Unplayed(g) ==
  /\ Len(emitted) = 1
  /\ \/ emitted[1].ev = "rematch:accepted"
     \/ emitted[1].ev = "http" /\ emitted[1].status = 200
  /\ g.activeStage = "GAME_OF_GO"
  /\ g.goPhase = "PLAY"
  /\ g.goTimeControl.mode # "none"

FirstMoves ==
  {submitGoMove(game, now, HOST, rc[1], rc[2], "black") : rc \in Cells(game.goBoardSize)}

\* C32: a match under a timed mode that takes Go moves, one created by
\* rematch:accept included, has the configured main time on both clocks and
\* a clock-start timestamp before its first move, and black's first move
\* with no time elapsed does not end the match on time.
C32_ClocksInitialized ==
  Unplayed(game) =>
    /\ \A color \in Colors :
         game.goTimeState[color].mainTime = game.goTimeControl.mainTime
    /\ game.goLastMoveTime # NoTime
    /\ \A r \in FirstMoves :
         getElapsedTime(game, now) = 0 => r.game.goPhase = "PLAY"

\* C33: a start-go request for a match whose phase is COMPLETE leaves its
\* phase, board and final score as they are, and rematch:accept leaves the
\* old match as it is.
C33_CompleteNotRevived ==
  game.goPhase = "COMPLETE" =>
    /\ \A userId \in Users, timeControl \in ClockControlInputs :
         LET r == startGo(game, now, userId, timeControl)
         IN  /\ r.game.goPhase = game.goPhase
             /\ r.game.goBoard = game.goBoard
             /\ r.game.goFinalScore = game.goFinalScore
    /\ \A userId \in Users, requesterId \in Users :
         rematchAccept(game, userId, requesterId).game = game

(* ------------------------- the persisted board ------------------------- *)

\* the groups of the board that have no liberty
Smothered(board) ==
  {d \in Cells(BoardLength(board)) :
     At(board, d) # NULL /\ Liberties(board, Component(board, d)) = {}}

\* C34: in every state reached from the empty board by accepted placements
\* and passes, every connected group of stones on the saved board has at
\* least one liberty.
C34_GroupsHaveLiberties ==
  (GoActive /\ game.goBoard # NullBoard) => Smothered(game.goBoard) = {}

\* a capturing placement was saved and stones of both colors remain
C34_Witness ==
  /\ GoActive
  /\ game.goCapturedBlack + game.goCapturedWhite > 0
  /\ StonesOf(game.goBoard, "black") + StonesOf(game.goBoard, "white") >= 2
  /\ Smothered(game.goBoard) = {}

\* the stones of a color on the board and those of it taken by the opponent
Conserved(g, color) == StonesOf(g.goBoard, color) + PlayTally(g, Other(color))

\* the step saved a placement of the color
Placement(color) ==
  /\ plies' = plies + 1
  /\ Len(emitted') = 1
  /\ emitted'[1].ev = "goMove"
  /\ emitted'[1].lastMove.color = color

\* the step is a start-go request that opened a match
Opened ==
  /\ starts' # starts
  /\ Len(emitted') = 1
  /\ emitted'[1].ev = "http"
  /\ emitted'[1].status = 200

\* C35: while the phase is PLAY, the stones of a color on the board plus
\* the capture tally of its opponent count the accepted placements of that
\* color: zero when start-go opens the match, one more with each accepted
\* placement of the color and unchanged by every other step; an accepted
\* placement raises the mover's tally by the number of stones it removed.
C35_StoneConservation ==
  [][/\ (Opened /\ InPlay') =>
          \A color \in Colors : Conserved(game', color) = 0
     /\ (~Opened /\ InPlay /\ InPlay') =>
          \A color \in Colors :
            /\ Conserved(game', color) =
                 Conserved(game, color) + (IF Placement(color) THEN 1 ELSE 0)
            /\ Placement(color) =>
                 PlayTally(game', color) = PlayTally(game, color)
                   + StonesOf(game.goBoard, Other(color))
                   - StonesOf(game'.goBoard, Other(color))]_vars

\* both colors have placed stones and stones of each were captured
C35_Witness ==
  /\ InPlay
  /\ game.goCapturedBlack > 0
  /\ game.goCapturedWhite > 0
  /\ StonesOf(game.goBoard, "black") + StonesOf(game.goBoard, "white") >= 1

(* ------------------- the scoring phase of part_004 --------------------- *)

\* the request left the match waiting for the other participant
Pending(r) == \E k \in 1..Len(r.emitted) : r.emitted[k].ev = "goScorePending"

\* C36: in the revision of part_004 no saved state has phase SCORING (the
\* second consecutive pass and the forced end score the match and save it
\* as COMPLETE in the same request); so every toggleGoDeadStone is
\* rejected, the dead-stone list stays empty, and no finalizeGoScore
\* request is left waiting for a second confirmation.
C36_NoScoringPhase ==
  build = "part_004" =>
    /\ game.goPhase # "SCORING"
    /\ game.goDeadStones = << >>
    /\ \A userId \in Users, rc \in CoordInputs(game.goBoardSize) :
         Rejected(toggleGoDeadStone(game, userId, rc[1], rc[2]))
    /\ \A userId \in Users, method \in Methods :
         LET r == finalizeGoScore(game, userId, method)
         IN  /\ ~Pending(r)
             /\ r.game.goPhase # "SCORING"

\* a match of part_004 ended by the second consecutive pass, with stones on
\* the board that a participant could wish to mark
C36_Witness ==
  /\ build = "part_004"
  /\ game.goPhase = "COMPLETE"
  /\ game.goConsecutivePasses >= 2
  /\ StonesOf(game.goBoard, "black") + StonesOf(game.goBoard, "white") >= 1

(* ------------------------- a silent player ----------------------------- *)

\* the match has ended with the color losing on time
LostOnTime(color) ==
  /\ game.goPhase = "COMPLETE"
  /\ game.goTimeExpired = color
  /\ game.goFinalScore.winner = Other(color)

\* C37: in a match in PLAY under any timed control that start-go accepts
\* (Fischer, or Japanese with any period time and period count, zero
\* included), if the color on turn sends nothing and the sweep keeps
\* running, the match eventually is COMPLETE with that color losing on time.
C37_SilentPlayerLoses ==
  \A color \in Colors :
    (SweepSelects(game) /\ game.goCurrentTurn = color) ~> LostOnTime(color)

(* --------------------------- the expired flag -------------------------- *)

\* the saved match records a loss on time of the color
TimeLossOf(g, color) ==
  /\ g.goPhase = "COMPLETE"
  /\ ~("isNull" \in DOMAIN g.goFinalScore)
  /\ "reason" \in DOMAIN g.goFinalScore
  /\ g.goFinalScore.reason \in {"time", "timeout"}
  /\ g.goFinalScore.winner = Other(color)

\* C38: in every saved state the expired flag is set only if the phase is
\* COMPLETE with a loss on time of that color; no state with an expired
\* color and phase PLAY is saved, not even by the sweep between its clock
\* save and its completion save.
C38_ExpiredOnlyWhenComplete ==
  game.goTimeExpired # NULL => TimeLossOf(game, game.goTimeExpired)

(* ---------------------- confirming at the same time -------------------- *)

\* both participants have sent finalizeGoScore, with the same method, and
\* both requests have run to their end
BothConfirmed == \A u \in {HOST, GUEST} : inflight.finalize[u].pc = "done"

\* C39: in the scoring phase, when host and guest each send
\* finalizeGoScore with the same method and no dead stone is toggled in
\* between, the match ends up COMPLETE, however the reads and saves of the
\* two requests interleave: once both requests are through, it is COMPLETE.
C39_BothConfirmCompletes ==
  BothConfirmed => game.goPhase = "COMPLETE"

(* --------------------------- clock quantities -------------------------- *)

NonNegative(clock) ==
  /\ clock.mainTime >= 0
  /\ clock.byoYomiTime >= 0
  /\ clock.byoYomiPeriods >= 0

\* C40: main time, period time and period count of both colors are at
\* least zero in every reachable state; within a match under the japanese
\* mode the byo-yomi flag of a color, once set, stays set, and its period
\* count does not rise from then on.
C40_ClockQuantities ==
  [][/\ \A color \in Colors : NonNegative(game'.goTimeState[color])
     /\ (starts' = starts /\ game.goTimeControl.mode = "japanese") =>
          \A color \in Colors :
            game.goTimeState[color].isByoYomi =>
              /\ game'.goTimeState[color].isByoYomi
              /\ game'.goTimeState[color].byoYomiPeriods
                   <= game.goTimeState[color].byoYomiPeriods]_vars

====
